---- MODULE Spec2Model ----
(***************************************************************************)
(* Model of sdtab (kok1eee/systemdtab): the schedule translator            *)
(* (src/src/cron.rs) and the declarative apply workflow (src/src/apply.rs, *)
(* add.rs, remove.rs, parse_unit.rs, unit.rs, sdtabfile.rs).               *)
(*                                                                         *)
(* A Rust string is a sequence of one-character strings, so that trimming, *)
(* splitting, prefix matching, integer parsing and number formatting are   *)
(* computed the way the code computes them.  Option<T> is a sequence of    *)
(* length 0 (None) or 1 (Some).  Result<T> is a record with the fields ok, *)
(* val and err.                                                            *)
(***************************************************************************)
EXTENDS Integers, Sequences, FiniteSets, TLC

VARIABLES expr, result, prev, pc, sdtab, unit_files, history

vars == <<expr, result, prev, pc, sdtab, unit_files, history>>

cronVars == <<expr, result, prev, pc>>

applyVars == <<sdtab, unit_files, history>>

---------------------------------------------------------------------------
(* Strings, options and results                                            *)

Str(s) == [i \in 1..Len(s) |-> SubSeq(s, i, i)]

None == <<>>

Some(x) == <<x>>

IsSome(o) == Len(o) = 1

Unwrap(o) == o[1]

Ok(v) == [ok |-> TRUE, val |-> v, err |-> <<>>]

Err(kind, detail) == [ok |-> FALSE, val |-> <<>>, err |-> <<kind, detail>>]

\* a let binding: the value is computed once and named in the body F
Let(x, F(_)) == F(x)

\* the ? operator: an error is returned as it is, a value is handed on
Try(r, F(_)) == IF ~r.ok THEN r ELSE F(r.val)

ErrKind(r) == r.err[1]

ErrDetail(r) == r.err[2]

Digits == <<"0", "1", "2", "3", "4", "5", "6", "7", "8", "9">>

IsDigit(c) == \E i \in 1..10 : Digits[i] = c

DigitVal(c) == (CHOOSE i \in 1..10 : Digits[i] = c) - 1

UpperChars == Str("ABCDEFGHIJKLMNOPQRSTUVWXYZ")

LowerChars == Str("abcdefghijklmnopqrstuvwxyz")

LowerChar(c) ==
    IF \E i \in 1..26 : UpperChars[i] = c
    THEN LowerChars[CHOOSE i \in 1..26 : UpperChars[i] = c]
    ELSE c

to_lowercase(s) == [i \in 1..Len(s) |-> LowerChar(s[i])]

IsWs(c) == c \in {" ", "\t", "\n", "\r"}

RECURSIVE trim_start(_)
trim_start(s) ==
    IF Len(s) > 0 /\ IsWs(s[1]) THEN trim_start(Tail(s)) ELSE s

RECURSIVE trim_end(_)
trim_end(s) ==
    IF Len(s) > 0 /\ IsWs(s[Len(s)])
    THEN trim_end(SubSeq(s, 1, Len(s) - 1))
    ELSE s

trim(s) == trim_end(trim_start(s))

starts_with(s, p) == Len(p) <= Len(s) /\ SubSeq(s, 1, Len(p)) = p

ends_with(s, p) ==
    Len(p) <= Len(s) /\ SubSeq(s, Len(s) - Len(p) + 1, Len(s)) = p

contains(s, c) == \E i \in 1..Len(s) : s[i] = c

\* index of the first occurrence of the character c in s, 0 when absent
IndexOf(s, c) ==
    IF contains(s, c)
    THEN CHOOSE i \in 1..Len(s) : s[i] = c /\ \A j \in 1..(i - 1) : s[j] # c
    ELSE 0

\* index of the first occurrence of the substring p in s, 0 when absent
Find(s, p) ==
    LET hits == {i \in 1..(Len(s) - Len(p) + 1) :
                    SubSeq(s, i, i + Len(p) - 1) = p}
    IN IF hits = {} THEN 0
       ELSE CHOOSE i \in hits : \A j \in hits : i <= j

strip_prefix(s, p) ==
    IF starts_with(s, p) THEN Some(SubSeq(s, Len(p) + 1, Len(s))) ELSE None

strip_suffix(s, p) ==
    IF ends_with(s, p) THEN Some(SubSeq(s, 1, Len(s) - Len(p))) ELSE None

RECURSIVE split(_, _)
split(s, c) ==
    LET i == IndexOf(s, c)
    IN IF i = 0 THEN <<s>>
       ELSE <<SubSeq(s, 1, i - 1)>> \o split(SubSeq(s, i + 1, Len(s)), c)

split_once(s, c) ==
    LET i == IndexOf(s, c)
    IN IF i = 0 THEN None
       ELSE Some(<<SubSeq(s, 1, i - 1), SubSeq(s, i + 1, Len(s))>>)

RECURSIVE split_whitespace(_)
split_whitespace(s) ==
    LET t == trim_start(s)
        ws == {i \in 1..Len(t) : IsWs(t[i])}
        e == IF ws = {} THEN Len(t) + 1
             ELSE CHOOSE i \in ws : \A j \in ws : i <= j
    IN IF Len(t) = 0 THEN <<>>
       ELSE <<SubSeq(t, 1, e - 1)>> \o split_whitespace(SubSeq(t, e, Len(t)))

RECURSIVE join(_, _)
join(parts, sep) ==
    IF Len(parts) = 0 THEN <<>>
    ELSE IF Len(parts) = 1 THEN parts[1]
    ELSE parts[1] \o sep \o join(Tail(parts), sep)

\* format!("{}", n)
RECURSIVE ToStr(_)
ToStr(n) ==
    IF n < 10 THEN <<Digits[n + 1]>>
    ELSE ToStr(n \div 10) \o <<Digits[(n % 10) + 1]>>

\* format!("{:02}", n) and format!("{:0>2}", n)
Pad2(n) == IF n < 10 THEN <<"0">> \o ToStr(n) ELSE ToStr(n)

RECURSIVE DigitsValue(_)
DigitsValue(ds) ==
    IF Len(ds) = 0 THEN 0
    ELSE DigitsValue(SubSeq(ds, 1, Len(ds) - 1)) * 10 + DigitVal(ds[Len(ds)])

RECURSIVE StripZeros(_)
StripZeros(ds) ==
    IF Len(ds) > 1 /\ ds[1] = "0" THEN StripZeros(Tail(ds)) ELSE ds

U32MaxDigits == Str("4294967295")

\* a < b for two digit strings of the same length
DigitsLess(a, b) ==
    \E i \in 1..Len(a) :
        /\ DigitVal(a[i]) < DigitVal(b[i])
        /\ \A j \in 1..(i - 1) : a[j] = b[j]

\* str::parse::<u32>(): an optional '+', then one or more decimal digits,
\* the value at most u32::MAX.
parse_u32(s) ==
    IF Len(s) = 0 THEN Err("ParseIntError", "Empty")
    ELSE
    Let(IF s[1] = "+" THEN Tail(s) ELSE s, LAMBDA body:
    IF Len(body) = 0 \/ \E i \in 1..Len(body) : ~IsDigit(body[i])
    THEN Err("ParseIntError", "InvalidDigit")
    ELSE
    Let(StripZeros(body), LAMBDA sig:
    IF Len(sig) > 10 \/ (Len(sig) = 10 /\ DigitsLess(U32MaxDigits, sig))
    THEN Err("ParseIntError", "PosOverflow")
    ELSE Ok(DigitsValue(sig))))

---------------------------------------------------------------------------
(* src/src/cron.rs                                                         *)

DOW_NAMES ==
    <<Str("Sun"), Str("Mon"), Str("Tue"), Str("Wed"), Str("Thu"),
      Str("Fri"), Str("Sat")>>

DOW_FULL_NAMES ==
    <<Str("sunday"), Str("monday"), Str("tuesday"), Str("wednesday"),
      Str("thursday"), Str("friday"), Str("saturday")>>

CronSchedule(cal, boot, svc, disp) ==
    [on_calendar |-> cal, on_boot_sec |-> boot, is_service |-> svc,
     display |-> disp]

\* smallest element of a non-empty set of indices
MinOf(S) == CHOOSE i \in S : \A j \in S : i <= j

\* parse_special with the @service entry also carrying a boot delay
parse_special_ServiceWithBoot(e) ==
    IF e \in {Str("@yearly"), Str("@annually")}
    THEN Some(CronSchedule(Some(Str("*-01-01 00:00:00")), None, FALSE,
                           Some(Str("@yearly"))))
    ELSE IF e = Str("@monthly")
    THEN Some(CronSchedule(Some(Str("*-*-01 00:00:00")), None, FALSE,
                           Some(Str("@monthly"))))
    ELSE IF e = Str("@weekly")
    THEN Some(CronSchedule(Some(Str("Mon *-*-* 00:00:00")), None, FALSE,
                           Some(Str("@weekly"))))
    ELSE IF e \in {Str("@daily"), Str("@midnight")}
    THEN Some(CronSchedule(Some(Str("*-*-* 00:00:00")), None, FALSE,
                           Some(Str("@daily"))))
    ELSE IF e = Str("@hourly")
    THEN Some(CronSchedule(Some(Str("*-*-* *:00:00")), None, FALSE,
                           Some(Str("@hourly"))))
    ELSE IF e = Str("@reboot")
    THEN Some(CronSchedule(None, Some(Str("1min")), FALSE,
                           Some(Str("@reboot"))))
    ELSE IF e = Str("@service")
    THEN Some(CronSchedule(None, Some(Str("1min")), TRUE,
                           Some(Str("@service"))))
    ELSE None

\* parse_special whose aliases keep their own spelling as display
parse_special_KeepAlias(e) ==
    IF e \in {Str("@yearly"), Str("@annually")}
    THEN Some(CronSchedule(Some(Str("*-01-01 00:00:00")), None, FALSE,
                           Some(e)))
    ELSE IF e = Str("@monthly")
    THEN Some(CronSchedule(Some(Str("*-*-01 00:00:00")), None, FALSE,
                           Some(Str("@monthly"))))
    ELSE IF e = Str("@weekly")
    THEN Some(CronSchedule(Some(Str("Mon *-*-* 00:00:00")), None, FALSE,
                           Some(Str("@weekly"))))
    ELSE IF e \in {Str("@daily"), Str("@midnight")}
    THEN Some(CronSchedule(Some(Str("*-*-* 00:00:00")), None, FALSE,
                           Some(e)))
    ELSE IF e = Str("@hourly")
    THEN Some(CronSchedule(Some(Str("*-*-* *:00:00")), None, FALSE,
                           Some(Str("@hourly"))))
    ELSE IF e = Str("@reboot")
    THEN Some(CronSchedule(None, Some(Str("1min")), FALSE,
                           Some(Str("@reboot"))))
    ELSE IF e = Str("@service")
    THEN Some(CronSchedule(None, None, TRUE, Some(Str("@service"))))
    ELSE None

parse_special(e) ==
    IF e \in {Str("@yearly"), Str("@annually")}
    THEN Some(CronSchedule(Some(Str("*-01-01 00:00:00")), None, FALSE,
                           Some(Str("@yearly"))))
    ELSE IF e = Str("@monthly")
    THEN Some(CronSchedule(Some(Str("*-*-01 00:00:00")), None, FALSE,
                           Some(Str("@monthly"))))
    ELSE IF e = Str("@weekly")
    THEN Some(CronSchedule(Some(Str("Mon *-*-* 00:00:00")), None, FALSE,
                           Some(Str("@weekly"))))
    ELSE IF e \in {Str("@daily"), Str("@midnight")}
    THEN Some(CronSchedule(Some(Str("*-*-* 00:00:00")), None, FALSE,
                           Some(Str("@daily"))))
    ELSE IF e = Str("@hourly")
    THEN Some(CronSchedule(Some(Str("*-*-* *:00:00")), None, FALSE,
                           Some(Str("@hourly"))))
    ELSE IF e = Str("@reboot")
    THEN Some(CronSchedule(None, Some(Str("1min")), FALSE,
                           Some(Str("@reboot"))))
    ELSE IF e = Str("@service")
    THEN Some(CronSchedule(None, None, TRUE, Some(Str("@service"))))
    ELSE None

is_weekday_keyword(keyword) ==
    Let(strip_prefix(keyword, <<"@">>), LAMBDA n:
    IF ~IsSome(n) THEN FALSE
    ELSE Let(Unwrap(n), LAMBDA name:
         \/ \E i \in 1..7 :
               \/ DOW_FULL_NAMES[i] = name
               \/ Len(name) >= 3 /\ starts_with(DOW_FULL_NAMES[i], name)
         \/ \E i \in 1..7 : to_lowercase(DOW_NAMES[i]) = name))

\* the st / nd / rd / th suffix chain shared by both ordinal parsers
OrdinalNumStr(s) ==
    IF ends_with(s, Str("st")) THEN strip_suffix(s, Str("st"))
    ELSE IF ends_with(s, Str("nd")) THEN strip_suffix(s, Str("nd"))
    ELSE IF ends_with(s, Str("rd")) THEN strip_suffix(s, Str("rd"))
    ELSE strip_suffix(s, Str("th"))

try_parse_ordinal_any(keyword) ==
    Let(strip_prefix(keyword, <<"@">>), LAMBDA s:
    IF ~IsSome(s) THEN None
    ELSE Let(OrdinalNumStr(Unwrap(s)), LAMBDA num_str:
         IF ~IsSome(num_str) THEN None
         ELSE Let(parse_u32(Unwrap(num_str)), LAMBDA n:
              IF n.ok THEN Some(n.val) ELSE None)))

try_parse_ordinal(keyword) ==
    Let(strip_prefix(keyword, <<"@">>), LAMBDA s:
    IF ~IsSome(s) THEN None
    ELSE Let(OrdinalNumStr(Unwrap(s)), LAMBDA num_str:
         IF ~IsSome(num_str) THEN None
         ELSE Let(parse_u32(Unwrap(num_str)), LAMBDA n:
              IF ~n.ok THEN None
              ELSE IF n.val >= 1 /\ n.val <= 31 THEN Some(n.val)
              ELSE None)))

check_incomplete_syntax(e) ==
    Let(to_lowercase(e), LAMBDA lower:
    IF is_weekday_keyword(lower) THEN Err("MissingTime", e)
    ELSE Let(try_parse_ordinal_any(lower), LAMBDA day:
         IF IsSome(day)
         THEN IF ~(Unwrap(day) >= 1 /\ Unwrap(day) <= 31)
              THEN Err("DayMustBe1To31Got", Unwrap(day))
              ELSE Err("MissingTime", e)
         ELSE Ok(<<>>)))

\* parse_time_spec that takes 24 as an hour
parse_time_spec_Hour24(s) ==
    Let(split_once(s, ":"), LAMBDA hm:
    IF IsSome(hm)
    THEN Let(parse_u32(Unwrap(hm)[1]), LAMBDA hour:
         Let(parse_u32(Unwrap(hm)[2]), LAMBDA minute:
         IF ~hour.ok THEN Err("InvalidHour", Unwrap(hm)[1])
         ELSE IF ~minute.ok THEN Err("InvalidMinute", Unwrap(hm)[2])
         ELSE IF hour.val > 24 THEN Err("HourMustBe0To23", <<>>)
         ELSE IF minute.val > 59 THEN Err("MinuteMustBe0To59", <<>>)
         ELSE Ok(<<hour.val, minute.val>>)))
    ELSE Let(parse_u32(s), LAMBDA hour:
         IF ~hour.ok THEN Err("InvalidHour", s)
         ELSE IF hour.val > 24 THEN Err("HourMustBe0To23", <<>>)
         ELSE Ok(<<hour.val, 0>>)))

parse_time_spec(s) ==
    Let(split_once(s, ":"), LAMBDA hm:
    IF IsSome(hm)
    THEN Let(parse_u32(Unwrap(hm)[1]), LAMBDA hour:
         Let(parse_u32(Unwrap(hm)[2]), LAMBDA minute:
         IF ~hour.ok THEN Err("InvalidHour", Unwrap(hm)[1])
         ELSE IF ~minute.ok THEN Err("InvalidMinute", Unwrap(hm)[2])
         ELSE IF hour.val > 23 THEN Err("HourMustBe0To23", <<>>)
         ELSE IF minute.val > 59 THEN Err("MinuteMustBe0To59", <<>>)
         ELSE Ok(<<hour.val, minute.val>>)))
    ELSE Let(parse_u32(s), LAMBDA hour:
         IF ~hour.ok THEN Err("InvalidHour", s)
         ELSE IF hour.val > 23 THEN Err("HourMustBe0To23", <<>>)
         ELSE Ok(<<hour.val, 0>>)))

\* indices of the full names equal to, or starting with, the given name
FullNameHits(name) ==
    {i \in 1..7 : DOW_FULL_NAMES[i] = name
                  \/ starts_with(DOW_FULL_NAMES[i], name)}

\* indices of the short names equal, in lowercase, to the given name
ShortNameHits(name) == {i \in 1..7 : to_lowercase(DOW_NAMES[i]) = name}

\* first hit of the full-name loop, else of the short-name loop
FirstNameHit(full, short) ==
    IF full # {} THEN Some(DOW_NAMES[MinOf(full)])
    ELSE IF short # {} THEN Some(DOW_NAMES[MinOf(short)])
    ELSE None

try_parse_dow_keyword(keyword) ==
    Let(strip_prefix(keyword, <<"@">>), LAMBDA n:
    IF ~IsSome(n) THEN None
    ELSE FirstNameHit(FullNameHits(Unwrap(n)), ShortNameHits(Unwrap(n))))

\* parse_dow_name that also takes the numbers 0-7
parse_dow_name_Numeric(s) ==
    Let(parse_u32(s), LAMBDA n:
    IF n.ok /\ n.val <= 7 THEN Ok(DOW_NAMES[(n.val % 7) + 1])
    ELSE Let(FirstNameHit(FullNameHits(to_lowercase(s)),
                          ShortNameHits(to_lowercase(s))), LAMBDA hit:
         IF IsSome(hit) THEN Ok(Unwrap(hit))
         ELSE Err("InvalidDayOfWeek", s)))

parse_dow_name(s) ==
    Let(FirstNameHit(FullNameHits(to_lowercase(s)),
                     ShortNameHits(to_lowercase(s))), LAMBDA hit:
    IF IsSome(hit) THEN Ok(Unwrap(hit))
    ELSE Err("InvalidDayOfWeek", s))

\* ordinal without the exceptions for 11, 12 and 13
ordinal_NoTeens(n) ==
    ToStr(n) \o (IF n % 10 = 1 THEN Str("st")
                 ELSE IF n % 10 = 2 THEN Str("nd")
                 ELSE IF n % 10 = 3 THEN Str("rd")
                 ELSE Str("th"))

ordinal(n) ==
    ToStr(n) \o (IF n % 10 = 1 /\ n % 100 # 11 THEN Str("st")
                 ELSE IF n % 10 = 2 /\ n % 100 # 12 THEN Str("nd")
                 ELSE IF n % 10 = 3 /\ n % 100 # 13 THEN Str("rd")
                 ELSE Str("th"))

\* format_time that never prints the minute
format_time_HourOnly(hour, minute) == ToStr(hour)

\* format_time that prints the minute also when it is zero
format_time_AlwaysMinute(hour, minute) ==
    ToStr(hour) \o <<":">> \o Pad2(minute)

format_time(hour, minute) ==
    IF minute = 0 THEN ToStr(hour)
    ELSE ToStr(hour) \o <<":">> \o Pad2(minute)

format_time_display(prefix, hour, minute) ==
    prefix \o <<"/">> \o format_time(hour, minute)

\* "{} *-*-* {:02}:{:02}:00"
WeeklyCalendar(dow, hour, minute) ==
    dow \o Str(" *-*-* ") \o Pad2(hour) \o <<":">> \o Pad2(minute)
        \o Str(":00")

\* MonthlyCalendar with the day as it is, not padded to two digits
MonthlyCalendar_NoPad(day, hour, minute) ==
    Str("*-*-") \o ToStr(day) \o <<" ">> \o Pad2(hour) \o <<":">>
        \o Pad2(minute) \o Str(":00")

\* "*-*-{:02} {:02}:{:02}:00"
MonthlyCalendar(day, hour, minute) ==
    Str("*-*-") \o Pad2(day) \o <<" ">> \o Pad2(hour) \o <<":">>
        \o Pad2(minute) \o Str(":00")

\* DailySchedule without a display form
DailySchedule_NoDisplay(hour, minute) ==
    CronSchedule(
        Some(Str("*-*-* ") \o Pad2(hour) \o <<":">> \o Pad2(minute)
             \o Str(":00")),
        None, FALSE, None)

\* the CronSchedule of the @daily/TIME branch
DailySchedule(hour, minute) ==
    CronSchedule(
        Some(Str("*-*-* ") \o Pad2(hour) \o <<":">> \o Pad2(minute)
             \o Str(":00")),
        None, FALSE,
        Some(format_time_display(Str("@daily"), hour, minute)))

\* WeeklySchedule whose display keeps the canonical name as it is
WeeklySchedule_KeepCase(dow, hour, minute) ==
    CronSchedule(
        Some(WeeklyCalendar(dow, hour, minute)), None, FALSE,
        Some(<<"@">> \o dow \o <<"/">> \o format_time(hour, minute)))

\* the CronSchedule of the @weekly/DOW/TIME and @DOW/TIME branches
WeeklySchedule(dow, hour, minute) ==
    CronSchedule(
        Some(WeeklyCalendar(dow, hour, minute)), None, FALSE,
        Some(<<"@">> \o to_lowercase(dow) \o <<"/">>
             \o format_time(hour, minute)))

\* the CronSchedule of the @monthly/N/TIME and @Nth/TIME branches
MonthlySchedule(day, hour, minute) ==
    CronSchedule(
        Some(MonthlyCalendar(day, hour, minute)), None, FALSE,
        Some(<<"@">> \o ordinal(day) \o <<"/">>
             \o format_time(hour, minute)))

\* parse_extended_keyword without the out-of-range ordinal branch
parse_extended_keyword_NoRangeBranch(parts, keyword) ==
    Let(try_parse_dow_keyword(keyword), LAMBDA dowkw:
    IF IsSome(dowkw)
    THEN IF Len(parts) # 2 THEN Err("InvalidWeekdaySyntax", <<>>)
         ELSE Try(parse_time_spec(parts[2]), LAMBDA t:
              Ok(Some(WeeklySchedule(Unwrap(dowkw), t[1], t[2]))))
    ELSE
    Let(try_parse_ordinal(keyword), LAMBDA ordkw:
    IF IsSome(ordkw)
    THEN IF Len(parts) # 2 THEN Err("InvalidOrdinalSyntax", <<>>)
         ELSE Try(parse_time_spec(parts[2]), LAMBDA t:
              Ok(Some(MonthlySchedule(Unwrap(ordkw), t[1], t[2]))))
    ELSE Ok(None)))

\* parse_extended_keyword that validates the time before counting the parts
parse_extended_keyword_TimeFirst(parts, keyword) ==
    Let(try_parse_dow_keyword(keyword), LAMBDA dowkw:
    IF IsSome(dowkw)
    THEN Try(parse_time_spec(parts[2]), LAMBDA t:
         IF Len(parts) # 2 THEN Err("InvalidWeekdaySyntax", <<>>)
         ELSE Ok(Some(WeeklySchedule(Unwrap(dowkw), t[1], t[2]))))
    ELSE
    Let(try_parse_ordinal(keyword), LAMBDA ordkw:
    IF IsSome(ordkw)
    THEN Try(parse_time_spec(parts[2]), LAMBDA t:
         IF Len(parts) # 2 THEN Err("InvalidOrdinalSyntax", <<>>)
         ELSE Ok(Some(MonthlySchedule(Unwrap(ordkw), t[1], t[2]))))
    ELSE
    Let(try_parse_ordinal_any(keyword), LAMBDA ordany:
    IF IsSome(ordany) THEN Err("DayMustBe1To31Got", Unwrap(ordany))
    ELSE Ok(None))))

\* the @DOW/TIME, @Nth/TIME and out-of-range ordinal branches
parse_extended_keyword(parts, keyword) ==
    Let(try_parse_dow_keyword(keyword), LAMBDA dowkw:
    IF IsSome(dowkw)
    THEN IF Len(parts) # 2 THEN Err("InvalidWeekdaySyntax", <<>>)
         ELSE Try(parse_time_spec(parts[2]), LAMBDA t:
              Ok(Some(WeeklySchedule(Unwrap(dowkw), t[1], t[2]))))
    ELSE
    Let(try_parse_ordinal(keyword), LAMBDA ordkw:
    IF IsSome(ordkw)
    THEN IF Len(parts) # 2 THEN Err("InvalidOrdinalSyntax", <<>>)
         ELSE Try(parse_time_spec(parts[2]), LAMBDA t:
              Ok(Some(MonthlySchedule(Unwrap(ordkw), t[1], t[2]))))
    ELSE
    Let(try_parse_ordinal_any(keyword), LAMBDA ordany:
    IF IsSome(ordany) THEN Err("DayMustBe1To31Got", Unwrap(ordany))
    ELSE Ok(None))))

parse_extended(e) ==
    IF ~starts_with(e, <<"@">>) \/ ~contains(e, "/") THEN Ok(None)
    ELSE
    Let(split(e, "/"), LAMBDA parts:
    Let(to_lowercase(parts[1]), LAMBDA keyword:
    IF keyword = Str("@daily")
    THEN IF Len(parts) # 2 THEN Err("InvalidDailySyntax", <<>>)
         ELSE Try(parse_time_spec(parts[2]), LAMBDA t:
              Ok(Some(DailySchedule(t[1], t[2]))))
    ELSE IF keyword = Str("@weekly")
    THEN IF Len(parts) # 3 THEN Err("InvalidWeeklySyntax", <<>>)
         ELSE Try(parse_dow_name(parts[2]), LAMBDA dow:
              Try(parse_time_spec(parts[3]), LAMBDA t:
              Ok(Some(WeeklySchedule(dow, t[1], t[2])))))
    ELSE IF keyword = Str("@monthly")
    THEN IF Len(parts) # 3 THEN Err("InvalidMonthlySyntax", <<>>)
         ELSE Let(parse_u32(parts[2]), LAMBDA day:
              IF ~day.ok THEN Err("InvalidDay", parts[2])
              ELSE IF ~(day.val >= 1 /\ day.val <= 31)
              THEN Err("DayMustBeBetween1And31", <<>>)
              ELSE Try(parse_time_spec(parts[3]), LAMBDA t:
                   Ok(Some(MonthlySchedule(day.val, t[1], t[2])))))
    ELSE parse_extended_keyword(parts, keyword)))

\* FieldType::range and FieldType::start
FieldRange(field_type) ==
    CASE field_type = "Minute" -> <<0, 59>>
      [] field_type = "Hour" -> <<0, 23>>
      [] field_type = "DayOfMonth" -> <<1, 31>>
      [] field_type = "Month" -> <<1, 12>>

FieldStart(field_type) == FieldRange(field_type)[1]

\* the while loop of the stepped-range branch: v <= end pushes v and adds step
RECURSIVE ExpandLoop(_, _, _, _)
ExpandLoop(v, end, step, values) ==
    IF v <= end
    THEN ExpandLoop(v + step, end, step, Append(values, Pad2(v)))
    ELSE values

\* the stepped-range branch once the step is parsed: "Panic" is the unwrap
\* on None, "NonTermination" the loop whose condition never becomes false
\* (with step 0 the loop variable never moves, and the vector grows until
\* the process is killed).  Neither is an error value.
parse_stepped_range(range_part, step) ==
    Let(split_once(range_part, "-"), LAMBDA se:
    IF ~IsSome(se) THEN Err("Panic", "unwrap on None")
    ELSE Try(parse_u32(Unwrap(se)[1]), LAMBDA start:
         Try(parse_u32(Unwrap(se)[2]), LAMBDA end:
         IF step = 0 /\ start <= end
         THEN Err("NonTermination", "while v <= end")
         ELSE Ok(join(ExpandLoop(start, end, step, <<>>), <<",">>)))))

\* parse_single_element whose stepped wildcard starts at 0 in every field
parse_single_element_ZeroStart(element, field_type) ==
    Let(strip_prefix(element, Str("*/")), LAMBDA star:
    IF IsSome(star)
    THEN Try(parse_u32(Unwrap(star)), LAMBDA step:
         Ok(Str("0/") \o ToStr(step)))
    ELSE IF contains(element, "-") /\ contains(element, "/")
    THEN Let(Unwrap(split_once(element, "/")), LAMBDA rs:
         Try(parse_u32(rs[2]), LAMBDA step:
         parse_stepped_range(rs[1], step)))
    ELSE
    Let(split_once(element, "-"), LAMBDA se:
    IF IsSome(se)
    THEN Try(parse_u32(Unwrap(se)[1]), LAMBDA start:
         Try(parse_u32(Unwrap(se)[2]), LAMBDA end:
         Ok(ToStr(start) \o Str("..") \o ToStr(end))))
    ELSE Try(parse_u32(element), LAMBDA n: Ok(Pad2(n)))))

\* parse_single_element that splits the range part before parsing the step
parse_single_element_RangeFirst(element, field_type) ==
    Let(strip_prefix(element, Str("*/")), LAMBDA star:
    IF IsSome(star)
    THEN Try(parse_u32(Unwrap(star)), LAMBDA step:
         Ok(ToStr(FieldStart(field_type)) \o <<"/">> \o ToStr(step)))
    ELSE IF contains(element, "-") /\ contains(element, "/")
    THEN Let(Unwrap(split_once(element, "/")), LAMBDA rs:
         IF ~IsSome(split_once(rs[1], "-"))
         THEN Err("Panic", "unwrap on None")
         ELSE Try(parse_u32(rs[2]), LAMBDA step:
              parse_stepped_range(rs[1], step)))
    ELSE
    Let(split_once(element, "-"), LAMBDA se:
    IF IsSome(se)
    THEN Try(parse_u32(Unwrap(se)[1]), LAMBDA start:
         Try(parse_u32(Unwrap(se)[2]), LAMBDA end:
         Ok(ToStr(start) \o Str("..") \o ToStr(end))))
    ELSE Try(parse_u32(element), LAMBDA n: Ok(Pad2(n)))))

parse_single_element(element, field_type) ==
    Let(strip_prefix(element, Str("*/")), LAMBDA star:
    IF IsSome(star)
    THEN Try(parse_u32(Unwrap(star)), LAMBDA step:
         Ok(ToStr(FieldStart(field_type)) \o <<"/">> \o ToStr(step)))
    ELSE IF contains(element, "-") /\ contains(element, "/")
    THEN Let(Unwrap(split_once(element, "/")), LAMBDA rs:
         Try(parse_u32(rs[2]), LAMBDA step:
         parse_stepped_range(rs[1], step)))
    ELSE
    Let(split_once(element, "-"), LAMBDA se:
    IF IsSome(se)
    THEN Try(parse_u32(Unwrap(se)[1]), LAMBDA start:
         Try(parse_u32(Unwrap(se)[2]), LAMBDA end:
         Ok(ToStr(start) \o Str("..") \o ToStr(end))))
    ELSE Try(parse_u32(element), LAMBDA n: Ok(Pad2(n)))))

\* results of parse_single_element over the elements of a list, stopping at
\* the first failure
RECURSIVE CollectElements(_, _, _)
CollectElements(parts, field_type, values) ==
    IF Len(parts) = 0 THEN Ok(values)
    ELSE Try(parse_single_element(Head(parts), field_type), LAMBDA v:
         CollectElements(Tail(parts), field_type, Append(values, v)))

parse_field(field, field_type) ==
    IF field = <<"*">> THEN Ok(<<"*">>)
    ELSE Let(split(field, ","), LAMBDA parts:
         IF Len(parts) > 1
         THEN Try(CollectElements(parts, field_type, <<>>), LAMBDA values:
              Ok(join(values, <<",">>)))
         ELSE parse_single_element(field, field_type))

\* indices of the short names equal to, or starting with, the given name
DowNameHits(lower) ==
    {i \in 1..7 : \/ to_lowercase(DOW_NAMES[i]) = lower
                  \/ starts_with(to_lowercase(DOW_NAMES[i]), lower)}

\* the name lookup of dow_to_name, tried when the input is not a number
dow_name_lookup(s, hits) ==
    IF hits # {} THEN Ok(DOW_NAMES[MinOf(hits)])
    ELSE Err("InvalidDayOfWeek", s)

\* dow_to_name without the 7 -> 0 mapping
dow_to_name_NoSevenWrap(s) ==
    Let(parse_u32(s), LAMBDA n:
    IF n.ok
    THEN IF n.val < Len(DOW_NAMES) THEN Ok(DOW_NAMES[n.val + 1])
         ELSE Err("InvalidDayOfWeekNumber", n.val)
    ELSE dow_name_lookup(s, DowNameHits(to_lowercase(s))))

\* dow_to_name that matches the full names as well, as parse_dow_name does
dow_to_name_FullNames(s) ==
    Let(parse_u32(s), LAMBDA n:
    IF n.ok
    THEN Let(IF n.val = 7 THEN 0 ELSE n.val, LAMBDA idx:
         IF idx < Len(DOW_NAMES) THEN Ok(DOW_NAMES[idx + 1])
         ELSE Err("InvalidDayOfWeekNumber", n.val))
    ELSE dow_name_lookup(s, DowNameHits(to_lowercase(s))
                            \cup FullNameHits(to_lowercase(s))))

dow_to_name(s) ==
    Let(parse_u32(s), LAMBDA n:
    IF n.ok
    THEN Let(IF n.val = 7 THEN 0 ELSE n.val, LAMBDA idx:
         IF idx < Len(DOW_NAMES) THEN Ok(DOW_NAMES[idx + 1])
         ELSE Err("InvalidDayOfWeekNumber", n.val))
    ELSE dow_name_lookup(s, DowNameHits(to_lowercase(s))))

parse_single_dow(element) ==
    Let(split_once(element, "-"), LAMBDA se:
    IF IsSome(se)
    THEN Try(dow_to_name(Unwrap(se)[1]), LAMBDA start:
         Try(dow_to_name(Unwrap(se)[2]), LAMBDA end:
         Ok(start \o Str("..") \o end)))
    ELSE dow_to_name(element))

RECURSIVE CollectDows(_, _)
CollectDows(parts, names) ==
    IF Len(parts) = 0 THEN Ok(names)
    ELSE Try(parse_single_dow(Head(parts)), LAMBDA name:
         CollectDows(Tail(parts), Append(names, name)))

parse_dow_field(field) ==
    IF field = <<"*">> THEN Ok(None)
    ELSE Let(split(field, ","), LAMBDA parts:
         IF Len(parts) > 1
         THEN Try(CollectDows(parts, <<>>), LAMBDA names:
              Ok(Some(join(names, <<",">>))))
         ELSE Try(parse_single_dow(field), LAMBDA name: Ok(Some(name))))

\* FieldsSchedule with the day of the month before the month
FieldsSchedule_DayFirst(minute, hour, dom, month, dow) ==
    CronSchedule(
        Some((IF IsSome(dow) THEN Unwrap(dow) \o <<" ">> ELSE <<>>)
             \o Str("*-") \o dom \o <<"-">> \o month
             \o <<" ">> \o hour \o <<":">> \o minute \o Str(":00")),
        None, FALSE, None)

\* "{}*-{}-{} {}:{}:00" with the day-of-week prefix "{} " when there is one
FieldsSchedule(minute, hour, dom, month, dow) ==
    CronSchedule(
        Some((IF IsSome(dow) THEN Unwrap(dow) \o <<" ">> ELSE <<>>)
             \o Str("*-") \o month \o <<"-">> \o dom
             \o <<" ">> \o hour \o <<":">> \o minute \o Str(":00")),
        None, FALSE, None)

\* parse_fields that only rejects fewer than five fields
parse_fields_AtLeastFive(trimmed) ==
    Let(split_whitespace(trimmed), LAMBDA fields:
    IF Len(fields) < 5 THEN Err("ExpectedFiveFields", Len(fields))
    ELSE
    Try(parse_field(fields[1], "Minute"), LAMBDA minute:
    Try(parse_field(fields[2], "Hour"), LAMBDA hour:
    Try(parse_field(fields[3], "DayOfMonth"), LAMBDA dom:
    Try(parse_field(fields[4], "Month"), LAMBDA month:
    Try(parse_dow_field(fields[5]), LAMBDA dow:
    Ok(FieldsSchedule(minute, hour, dom, month, dow))))))))

\* the standard 5-field path of parse, from the field split on
parse_fields(trimmed) ==
    Let(split_whitespace(trimmed), LAMBDA fields:
    IF Len(fields) # 5 THEN Err("ExpectedFiveFields", Len(fields))
    ELSE
    Try(parse_field(fields[1], "Minute"), LAMBDA minute:
    Try(parse_field(fields[2], "Hour"), LAMBDA hour:
    Try(parse_field(fields[3], "DayOfMonth"), LAMBDA dom:
    Try(parse_field(fields[4], "Month"), LAMBDA month:
    Try(parse_dow_field(fields[5]), LAMBDA dow:
    Ok(FieldsSchedule(minute, hour, dom, month, dow))))))))

\* parse without the trim of the input
parse_NoTrim(e) ==
    Let(e, LAMBDA trimmed:
    Try(parse_extended(trimmed), LAMBDA ext:
    IF IsSome(ext) THEN Ok(Unwrap(ext))
    ELSE
    Let(parse_special(trimmed), LAMBDA special:
    IF IsSome(special) THEN Ok(Unwrap(special))
    ELSE
    Try(IF starts_with(trimmed, <<"@">>)
        THEN check_incomplete_syntax(trimmed)
        ELSE Ok(<<>>), LAMBDA complete:
    parse_fields(trimmed)))))

parse(e) ==
    Let(trim(e), LAMBDA trimmed:
    Try(parse_extended(trimmed), LAMBDA ext:
    IF IsSome(ext) THEN Ok(Unwrap(ext))
    ELSE
    Let(parse_special(trimmed), LAMBDA special:
    IF IsSome(special) THEN Ok(Unwrap(special))
    ELSE
    Try(IF starts_with(trimmed, <<"@">>)
        THEN check_incomplete_syntax(trimmed)
        ELSE Ok(<<>>), LAMBDA complete:
    parse_fields(trimmed)))))

---------------------------------------------------------------------------
(* src/src/init.rs                                                         *)

\* the environment: the value of HOME
HOME == Str("/home/u")

config_dir == HOME \o Str("/.config/sdtab")

global_env_path == config_dir \o Str("/env")

\* the environment: the binaries that the PATH of the global env file, or
\* which, resolves, each with its full path
PathBinaries == {<<Str("sh"), Str("/bin/sh")>>}

\* str::splitn(2, char::is_whitespace)
splitn2(s) ==
    Let({i \in 1..Len(s) : IsWs(s[i])}, LAMBDA ws:
    IF ws = {} THEN <<s>>
    ELSE <<SubSeq(s, 1, MinOf(ws) - 1), SubSeq(s, MinOf(ws) + 1, Len(s))>>)

\* the resolved binary followed by the arguments, when there are any
WithArgs(full_path, parts) ==
    IF Len(parts) > 1 /\ Len(parts[2]) > 0
    THEN full_path \o <<" ">> \o parts[2]
    ELSE full_path

resolve_command(command) ==
    Let(splitn2(command), LAMBDA parts:
    IF starts_with(parts[1], <<"/">>) THEN Ok(command)
    ELSE IF starts_with(parts[1], Str("./"))
            \/ starts_with(parts[1], Str("../"))
    THEN Ok(command)
    ELSE Let({p \in PathBinaries : p[1] = parts[1]}, LAMBDA found:
         IF found # {}
         THEN Ok(WithArgs((CHOOSE p \in found : TRUE)[2], parts))
         ELSE Err("CommandNotFound", parts[1])))

---------------------------------------------------------------------------
(* src/src/unit.rs                                                         *)

\* "{key}{val}\n"
Line(key, val) == Str(key) \o val \o <<"\n">>

\* the line of an optional setting, nothing when it is None
OptLine(key, opt) == IF IsSome(opt) THEN Line(key, Unwrap(opt)) ELSE <<>>

RECURSIVE EnvLines(_)
EnvLines(env) ==
    IF Len(env) = 0 THEN <<>>
    ELSE Line("Environment=", Head(env)) \o EnvLines(Tail(env))

global_env_line == Line("EnvironmentFile=-", global_env_path)

generate_service_options(config) ==
    OptLine("ExecStartPre=", config.exec_start_pre)
        \o OptLine("ExecStopPost=", config.exec_stop_post)
        \o OptLine("TimeoutStopSec=", config.timeout_stop)
        \o OptLine("MemoryMax=", config.memory_max)
        \o OptLine("CPUQuota=", config.cpu_quota)
        \o OptLine("IOWeight=", config.io_weight)
        \o OptLine("LogLevelMax=", config.log_level_max)
        \o EnvLines(config.env)

generate_service(config) ==
    Str("# sdtab:type=timer\n")
        \o Line("# sdtab:cron=",
                IF IsSome(config.cron_expr) THEN Unwrap(config.cron_expr)
                ELSE <<>>)
        \o Str("[Unit]\n")
        \o Line("Description=[sdtab] ",
                config.name \o Str(": ") \o config.description)
        \o Str("\n[Service]\nType=oneshot\n")
        \o Line("ExecStart=", config.command)
        \o Line("WorkingDirectory=", config.workdir)
        \o global_env_line
        \o generate_service_options(config)

\* restart_policy.as_deref().unwrap_or("always")
RestartOrAlways(restart) ==
    IF IsSome(restart) THEN Unwrap(restart) ELSE Str("always")

generate_daemon_service(config) ==
    Str("# sdtab:type=service\n")
        \o Line("# sdtab:restart=", RestartOrAlways(config.restart_policy))
        \o Str("[Unit]\n")
        \o Line("Description=[sdtab] ",
                config.name \o Str(": ") \o config.description)
        \o Str("After=network-online.target\n\n[Service]\nType=simple\n")
        \o Line("ExecStart=", config.command)
        \o Line("WorkingDirectory=", config.workdir)
        \o Line("Restart=", RestartOrAlways(config.restart_policy))
        \o Str("RestartSec=5\n")
        \o global_env_line
        \o OptLine("EnvironmentFile=", config.env_file)
        \o generate_service_options(config)
        \o Str("[Install]\nWantedBy=default.target\n")

\* the timer file; the expect and the unreachable! are panics
generate_timer(config) ==
    IF ~IsSome(config.schedule)
    THEN Err("Panic", "Timer requires a schedule")
    ELSE
    Let(Unwrap(config.schedule), LAMBDA schedule:
    IF ~IsSome(schedule.on_calendar) /\ ~IsSome(schedule.on_boot_sec)
    THEN Err("Panic", "unreachable")
    ELSE Ok(Str("[Unit]\n")
            \o Line("Description=[sdtab] ", config.name \o Str(" timer"))
            \o Str("\n[Timer]\n")
            \o (IF IsSome(schedule.on_calendar)
                THEN Line("OnCalendar=", Unwrap(schedule.on_calendar))
                ELSE Line("OnBootSec=", Unwrap(schedule.on_boot_sec)))
            \o Str("Persistent=true\n")
            \o OptLine("RandomizedDelaySec=", config.random_delay)
            \o Str("\n[Install]\nWantedBy=timers.target\n")))

service_filename(name) == Str("sdtab-") \o name \o Str(".service")

timer_filename(name) == Str("sdtab-") \o name \o Str(".timer")

---------------------------------------------------------------------------
(* src/src/parse_unit.rs                                                   *)

\* str::lines(): the pieces between newlines, without a final empty piece
\* and without the carriage return that ends a piece
lines(s) ==
    Let(split(s, "\n"), LAMBDA pieces:
    Let(IF Len(pieces[Len(pieces)]) = 0
        THEN SubSeq(pieces, 1, Len(pieces) - 1)
        ELSE pieces, LAMBDA kept:
    [i \in 1..Len(kept) |->
        IF ends_with(kept[i], <<"\r">>)
        THEN SubSeq(kept[i], 1, Len(kept[i]) - 1)
        ELSE kept[i]]))

\* the lines of a unit file, each trimmed as the loops over them do
TrimmedLines(content) ==
    Let(lines(content), LAMBDA ls: [i \in 1..Len(ls) |-> trim(ls[i])])

MaxOf(S) == CHOOSE i \in S : \A j \in S : j <= i

\* if let Some(val) = line.strip_prefix(key) { field = Some(val) }, over all
\* the lines: the field is left with the value of the last line that
\* carries the key, and stays None without such a line
LastValue(ls, key) ==
    Let({i \in 1..Len(ls) : starts_with(ls[i], Str(key))}, LAMBDA hits:
    IF hits = {} THEN None ELSE strip_prefix(ls[MaxOf(hits)], Str(key)))

\* the value of a String field, which starts empty
LastString(ls, key) ==
    Let(LastValue(ls, key), LAMBDA val:
    IF IsSome(val) THEN Unwrap(val) ELSE <<>>)

\* the "# sdtab:type=" comparisons: the last of the two lines decides, and
\* the type starts as Timer
TypeOf(ls) ==
    Let({i \in 1..Len(ls) : ls[i] = Str("# sdtab:type=service")
                            \/ ls[i] = Str("# sdtab:type=timer")},
        LAMBDA hits:
    IF hits = {} THEN "Timer"
    ELSE IF ls[MaxOf(hits)] = Str("# sdtab:type=service") THEN "Service"
    ELSE "Timer")

\* "Description=[sdtab] name: desc": the part after the first ": "
DescriptionOf(ls) ==
    Let(LastValue(ls, "Description=[sdtab] "), LAMBDA val:
    IF ~IsSome(val) THEN <<>>
    ELSE Let(Find(Unwrap(val), Str(": ")), LAMBDA pos:
         IF pos # 0 THEN SubSeq(Unwrap(val), pos + 2, Len(Unwrap(val)))
         ELSE Unwrap(val)))

\* the path of an EnvironmentFile= line: without the leading '-' if any
EnvFilePath(line) ==
    Let(Unwrap(strip_prefix(line, Str("EnvironmentFile="))), LAMBDA val:
    IF starts_with(val, <<"-">>) THEN Unwrap(strip_prefix(val, <<"-">>))
    ELSE val)

\* EnvironmentFile=: a line with a leading '-' and the global path is
\* skipped, every other line sets env_file
EnvFileOf(ls, global_path) ==
    Let({i \in 1..Len(ls) :
            /\ starts_with(ls[i], Str("EnvironmentFile="))
            /\ ~(/\ starts_with(ls[i], Str("EnvironmentFile=-"))
                 /\ EnvFilePath(ls[i]) = global_path)}, LAMBDA hits:
    IF hits = {} THEN None ELSE Some(EnvFilePath(ls[MaxOf(hits)])))

\* Environment=: every value is pushed, in the order of the lines
RECURSIVE EnvOf(_)
EnvOf(ls) ==
    IF Len(ls) = 0 THEN <<>>
    ELSE (IF starts_with(Head(ls), Str("Environment="))
          THEN <<Unwrap(strip_prefix(Head(ls), Str("Environment=")))>>
          ELSE <<>>) \o EnvOf(Tail(ls))

\* the command: the original command when there is one, else ExecStart
CommandOf(ls) ==
    Let(LastValue(ls, "# sdtab:command="), LAMBDA original_command:
    IF IsSome(original_command) THEN Unwrap(original_command)
    ELSE LastString(ls, "ExecStart="))

\* the ParsedUnit of the trimmed lines of the two files
ParsedUnit(name, ls, timer_ls) ==
    [name |-> name, unit_type |-> TypeOf(ls), command |-> CommandOf(ls),
     workdir |-> LastString(ls, "WorkingDirectory="),
     description |-> DescriptionOf(ls),
     cron_expr |-> LastValue(ls, "# sdtab:cron="),
     restart_policy |-> LastValue(ls, "# sdtab:restart="),
     env_file |-> EnvFileOf(ls, global_env_path),
     memory_max |-> LastValue(ls, "MemoryMax="),
     cpu_quota |-> LastValue(ls, "CPUQuota="),
     io_weight |-> LastValue(ls, "IOWeight="),
     timeout_stop |-> LastValue(ls, "TimeoutStopSec="),
     exec_start_pre |-> LastValue(ls, "ExecStartPre="),
     exec_stop_post |-> LastValue(ls, "ExecStopPost="),
     log_level_max |-> LastValue(ls, "LogLevelMax="),
     random_delay |-> LastValue(timer_ls, "RandomizedDelaySec="),
     env |-> EnvOf(ls)]

parse_service_file(name, service_content, timer_content) ==
    ParsedUnit(name, TrimmedLines(service_content),
               IF IsSome(timer_content)
               THEN TrimmedLines(Unwrap(timer_content)) ELSE <<>>)

\* the byte order of the characters of unit names
ByteOrder == Str("-.0123456789_abcdefghijklmnopqrstuvwxyz")

CharRank(c) == CHOOSE i \in 1..Len(ByteOrder) : ByteOrder[i] = c

\* String::cmp is Less
RECURSIVE StrLess(_, _)
StrLess(a, b) ==
    IF Len(b) = 0 THEN FALSE
    ELSE IF Len(a) = 0 THEN TRUE
    ELSE IF a[1] = b[1] THEN StrLess(Tail(a), Tail(b))
    ELSE CharRank(a[1]) < CharRank(b[1])

\* the strings of a set in ascending order: sort_by(name), BTreeMap order
RECURSIVE SortNames(_)
SortNames(S) ==
    IF S = {} THEN <<>>
    ELSE Let(CHOOSE x \in S : \A y \in S \ {x} : StrLess(x, y), LAMBDA least:
         <<least>> \o SortNames(S \ {least}))

\* the names of the sdtab-*.service files of the unit directory
ServiceNames(files) ==
    {Unwrap(strip_suffix(Unwrap(strip_prefix(f, Str("sdtab-"))),
                         Str(".service"))) :
        f \in {g \in DOMAIN files : /\ starts_with(g, Str("sdtab-"))
                                    /\ ends_with(g, Str(".service"))}}

scan_all_units(files) ==
    Let(SortNames(ServiceNames(files)), LAMBDA names:
    [i \in 1..Len(names) |->
        parse_service_file(
            names[i], files[service_filename(names[i])],
            IF timer_filename(names[i]) \in DOMAIN files
            THEN Some(files[timer_filename(names[i])]) ELSE None)])

---------------------------------------------------------------------------
(* src/src/sdtabfile.rs                                                    *)

description_if_different(desc, command) ==
    IF desc = command THEN None ELSE Some(desc)

desc_matches(current_desc, current_cmd, desired_desc) ==
    description_if_different(current_desc, current_cmd) = desired_desc

---------------------------------------------------------------------------
(* src/src/systemctl.rs, remove.rs, add.rs                                 *)

\* The world a command acts on: the files of the unit directory, the number
\* of systemctl invocations made so far whose failure is returned to the
\* caller, the invocation that fails in this run (0: none), and the log of
\* the remove and add invocations of apply.
World(files, fail_at) ==
    [files |-> files, calls |-> 0, fail_at |-> fail_at, log |-> <<>>]

\* what a command leaves: the world and its Result
Outcome(w, r) == [w |-> w, r |-> r]

\* the ? operator on a command: the next command runs in the world left
Then(o, F(_)) == IF ~o.r.ok THEN o ELSE F(o.w)

\* systemctl::run: a non-zero exit status is an error
systemctl_run(w) ==
    Outcome([w EXCEPT !.calls = @ + 1],
            IF w.calls + 1 = w.fail_at
            THEN Err("SystemctlFailed", w.calls + 1)
            ELSE Ok(<<>>))

daemon_reload(w) == systemctl_run(w)

enable_and_start(w) == systemctl_run(w)

Exists(w, filename) == filename \in DOMAIN w.files

\* fs::write
WriteFile(w, filename, content) ==
    [w EXCEPT !.files =
        [f \in DOMAIN w.files \cup {filename} |->
            IF f = filename THEN content ELSE w.files[f]]]

\* fs::remove_file of a file that exists
RemoveFile(w, filename) ==
    [w EXCEPT !.files = [f \in DOMAIN w.files \ {filename} |-> w.files[f]]]

\* remove::run; a failure of stop_and_disable is only printed
remove_run(w, name) ==
    IF ~Exists(w, timer_filename(name)) /\ ~Exists(w, service_filename(name))
    THEN Outcome(w, Err("NotFound", name))
    ELSE daemon_reload(RemoveFile(RemoveFile(w, service_filename(name)),
                                  timer_filename(name)))

\* the environment: the current directory
CurrentDir == Str("/home/u")

resolve_workdir(workdir) ==
    IF IsSome(workdir) THEN Unwrap(workdir) ELSE CurrentDir

\* the fields of UnitConfig that run_timer and run_service fill alike
BaseConfig(name, opts, resolved_command) ==
    [name |-> name, command |-> resolved_command,
     workdir |-> resolve_workdir(opts.workdir),
     description |-> IF IsSome(opts.description)
                     THEN Unwrap(opts.description) ELSE opts.command,
     memory_max |-> opts.memory_max, cpu_quota |-> opts.cpu_quota,
     io_weight |-> opts.io_weight, timeout_stop |-> opts.timeout_stop,
     exec_start_pre |-> opts.exec_start_pre,
     exec_stop_post |-> opts.exec_stop_post,
     log_level_max |-> opts.log_level_max, env |-> opts.env]

\* the UnitConfig of run_timer
TimerConfig(name, opts, parsed, resolved_command) ==
    BaseConfig(name, opts, resolved_command) @@
    [cron_expr |-> Some(IF IsSome(parsed.display)
                        THEN Unwrap(parsed.display) ELSE opts.schedule),
     schedule |-> Some(parsed), restart_policy |-> None,
     env_file |-> None, random_delay |-> opts.random_delay]

\* the UnitConfig of run_service
ServiceConfig(name, opts, resolved_command) ==
    BaseConfig(name, opts, resolved_command) @@
    [cron_expr |-> None, schedule |-> None,
     restart_policy |-> opts.restart, env_file |-> opts.env_file,
     random_delay |-> None]

\* the two files are written, then the daemon is reloaded and the timer
\* enabled
WriteTimer(w, name, config, timer_content) ==
    Then(daemon_reload(
             WriteFile(WriteFile(w, service_filename(name),
                                 generate_service(config)),
                       timer_filename(name), timer_content)),
         LAMBDA reloaded: enable_and_start(reloaded))

run_timer(w, opts, parsed) ==
    Let(Unwrap(opts.name), LAMBDA name:
    IF Exists(w, service_filename(name)) \/ Exists(w, timer_filename(name))
    THEN Outcome(w, Err("AlreadyExists", name))
    ELSE
    Let(resolve_command(opts.command), LAMBDA resolved:
    IF ~resolved.ok THEN Outcome(w, resolved)
    ELSE
    Let(TimerConfig(name, opts, parsed, resolved.val), LAMBDA config:
    Let(generate_timer(config), LAMBDA timer_content:
    IF ~timer_content.ok THEN Outcome(w, timer_content)
    ELSE WriteTimer(w, name, config, timer_content.val)))))

\* the environment: the paths that exist besides the unit directory
ExistingPaths == {Str("/srv/.env")}

RestartPolicies == {Str("always"), Str("on-failure"), Str("no")}

run_service(w, opts) ==
    IF IsSome(opts.restart) /\ Unwrap(opts.restart) \notin RestartPolicies
    THEN Outcome(w, Err("InvalidRestartPolicy", Unwrap(opts.restart)))
    ELSE IF IsSome(opts.env_file) /\ Unwrap(opts.env_file) \notin ExistingPaths
    THEN Outcome(w, Err("EnvFileNotFound", Unwrap(opts.env_file)))
    ELSE
    Let(Unwrap(opts.name), LAMBDA name:
    IF Exists(w, service_filename(name))
    THEN Outcome(w, Err("AlreadyExists", name))
    ELSE
    Let(resolve_command(opts.command), LAMBDA resolved:
    IF ~resolved.ok THEN Outcome(w, resolved)
    ELSE
    Then(daemon_reload(
             WriteFile(w, service_filename(name),
                       generate_daemon_service(
                           ServiceConfig(name, opts, resolved.val)))),
         LAMBDA reloaded: enable_and_start(reloaded))))

\* add::run that hands every schedule to run_timer
add_run_TimerOnly(w, opts) ==
    Let(parse(opts.schedule), LAMBDA parsed:
    IF ~parsed.ok THEN Outcome(w, parsed)
    ELSE run_timer(w, opts, parsed.val))

add_run(w, opts) ==
    Let(parse(opts.schedule), LAMBDA parsed:
    IF ~parsed.ok THEN Outcome(w, parsed)
    ELSE IF parsed.val.is_service THEN run_service(w, opts)
    ELSE run_timer(w, opts, parsed.val))

---------------------------------------------------------------------------
(* src/src/apply.rs                                                        *)

timer_matches(current, desired) ==
    /\ (IF IsSome(current.cron_expr) THEN Unwrap(current.cron_expr)
        ELSE <<>>) = desired.schedule
    /\ current.command = desired.command
    /\ current.workdir = desired.workdir
    /\ desc_matches(current.description, current.command,
                    desired.description)
    /\ current.memory_max = desired.memory_max
    /\ current.cpu_quota = desired.cpu_quota
    /\ current.io_weight = desired.io_weight
    /\ current.timeout_stop = desired.timeout_stop
    /\ current.exec_start_pre = desired.exec_start_pre
    /\ current.exec_stop_post = desired.exec_stop_post
    /\ current.log_level_max = desired.log_level_max
    /\ current.random_delay = desired.random_delay
    /\ current.env = desired.env

\* service_matches that compares the restart policies as they are stored
service_matches_ExactRestart(current, desired) ==
    /\ current.command = desired.command
    /\ current.workdir = desired.workdir
    /\ desc_matches(current.description, current.command,
                    desired.description)
    /\ current.restart_policy = desired.restart
    /\ current.env_file = desired.env_file
    /\ current.memory_max = desired.memory_max
    /\ current.cpu_quota = desired.cpu_quota
    /\ current.io_weight = desired.io_weight
    /\ current.timeout_stop = desired.timeout_stop
    /\ current.exec_start_pre = desired.exec_start_pre
    /\ current.exec_stop_post = desired.exec_stop_post
    /\ current.log_level_max = desired.log_level_max
    /\ current.env = desired.env

service_matches(current, desired) ==
    /\ current.command = desired.command
    /\ current.workdir = desired.workdir
    /\ desc_matches(current.description, current.command,
                    desired.description)
    /\ RestartOrAlways(current.restart_policy)
           = RestartOrAlways(desired.restart)
    /\ current.env_file = desired.env_file
    /\ current.memory_max = desired.memory_max
    /\ current.cpu_quota = desired.cpu_quota
    /\ current.io_weight = desired.io_weight
    /\ current.timeout_stop = desired.timeout_stop
    /\ current.exec_start_pre = desired.exec_start_pre
    /\ current.exec_stop_post = desired.exec_stop_post
    /\ current.log_level_max = desired.log_level_max
    /\ current.env = desired.env

DiffEntry(name, unit_type, status) ==
    [name |-> name, unit_type |-> unit_type, status |-> status]

\* current_map.get(name): the positions of the unit of that name
CurrentOf(current_units, name) ==
    {i \in 1..Len(current_units) : current_units[i].name = name}

\* the loop over the timers of the file, in the order of the BTreeMap
TimerDiff(file, current_units) ==
    Let(SortNames(DOMAIN file.timers), LAMBDA names:
    [i \in 1..Len(names) |->
        DiffEntry(names[i], "Timer",
            IF CurrentOf(current_units, names[i]) = {} THEN "Added"
            ELSE IF \E c \in CurrentOf(current_units, names[i]) :
                       timer_matches(current_units[c],
                                     file.timers[names[i]])
            THEN "Unchanged"
            ELSE "Changed")])

\* the loop over the services of the file
ServiceDiff(file, current_units) ==
    Let(SortNames(DOMAIN file.services), LAMBDA names:
    [i \in 1..Len(names) |->
        DiffEntry(names[i], "Service",
            IF CurrentOf(current_units, names[i]) = {} THEN "Added"
            ELSE IF \E c \in CurrentOf(current_units, names[i]) :
                       service_matches(current_units[c],
                                       file.services[names[i]])
            THEN "Unchanged"
            ELSE "Changed")])

\* the units to prune: the current units that the file does not name
RECURSIVE RemovedDiff(_, _)
RemovedDiff(desired_names, current_units) ==
    IF Len(current_units) = 0 THEN <<>>
    ELSE (IF Head(current_units).name \notin desired_names
          THEN <<DiffEntry(Head(current_units).name,
                           Head(current_units).unit_type, "Removed")>>
          ELSE <<>>)
         \o RemovedDiff(desired_names, Tail(current_units))

diff_entries(file, current_units) ==
    TimerDiff(file, current_units)
        \o ServiceDiff(file, current_units)
        \o RemovedDiff(DOMAIN file.timers \cup DOMAIN file.services,
                       current_units)

\* the counters of the summary
CountStatus(entries, status) ==
    Cardinality({i \in 1..Len(entries) : entries[i].status = status})

\* the AddOptions that apply_entry builds for a timer and for a service
TimerOptions(name, entry) ==
    [schedule |-> entry.schedule, command |-> entry.command,
     name |-> Some(name), workdir |-> Some(entry.workdir),
     description |-> entry.description, env_file |-> None,
     restart |-> None, memory_max |-> entry.memory_max,
     cpu_quota |-> entry.cpu_quota, io_weight |-> entry.io_weight,
     timeout_stop |-> entry.timeout_stop,
     exec_start_pre |-> entry.exec_start_pre,
     exec_stop_post |-> entry.exec_stop_post,
     log_level_max |-> entry.log_level_max,
     random_delay |-> entry.random_delay, env |-> entry.env]

ServiceOptions(name, entry) ==
    [schedule |-> Str("@service"), command |-> entry.command,
     name |-> Some(name), workdir |-> Some(entry.workdir),
     description |-> entry.description, env_file |-> entry.env_file,
     restart |-> entry.restart, memory_max |-> entry.memory_max,
     cpu_quota |-> entry.cpu_quota, io_weight |-> entry.io_weight,
     timeout_stop |-> entry.timeout_stop,
     exec_start_pre |-> entry.exec_start_pre,
     exec_stop_post |-> entry.exec_stop_post,
     log_level_max |-> entry.log_level_max,
     random_delay |-> None, env |-> entry.env]

\* the invocation is noted in the log of the run, with whether a unit file
\* of that name exists at that moment
Logged(w, op, name) ==
    [w EXCEPT !.log = Append(@,
        [op |-> op, name |-> name,
         exists |-> Exists(w, service_filename(name))
                    \/ Exists(w, timer_filename(name))])]

apply_entry(w, file, name, unit_type) ==
    IF unit_type = "Timer"
    THEN add_run(Logged(w, "add", name),
                 TimerOptions(name, file.timers[name]))
    ELSE add_run(Logged(w, "add", name),
                 ServiceOptions(name, file.services[name]))

\* ApplyChange that removes a Removed entry without looking at prune
ApplyChange_AlwaysPrune(w, file, entry, prune) ==
    IF entry.status = "Changed"
    THEN Then(remove_run(Logged(w, "remove", entry.name), entry.name),
              LAMBDA removed:
              apply_entry(removed, file, entry.name, entry.unit_type))
    ELSE IF entry.status = "Added"
    THEN apply_entry(w, file, entry.name, entry.unit_type)
    ELSE IF entry.status = "Removed"
    THEN remove_run(Logged(w, "remove", entry.name), entry.name)
    ELSE Outcome(w, Ok(<<>>))

\* one iteration of the "Apply changes" loop
ApplyChange(w, file, entry, prune) ==
    IF entry.status = "Changed"
    THEN Then(remove_run(Logged(w, "remove", entry.name), entry.name),
              LAMBDA removed:
              apply_entry(removed, file, entry.name, entry.unit_type))
    ELSE IF entry.status = "Added"
    THEN apply_entry(w, file, entry.name, entry.unit_type)
    ELSE IF entry.status = "Removed" /\ prune
    THEN remove_run(Logged(w, "remove", entry.name), entry.name)
    ELSE Outcome(w, Ok(<<>>))

RECURSIVE ApplyChanges(_, _, _, _)
ApplyChanges(w, file, entries, prune) ==
    IF Len(entries) = 0 THEN Outcome(w, Ok(<<>>))
    ELSE Then(ApplyChange(w, file, Head(entries), prune), LAMBDA done:
         ApplyChanges(done, file, Tail(entries), prune))

\* the counter 'removed' of the summary: a Removed entry counts with --prune
RemovedCount(entries, prune) ==
    IF prune THEN CountStatus(entries, "Removed") ELSE 0

\* what a run of apply leaves: the files of the unit directory, and the
\* record of the run
RunRecord(file, prune, dry_run, entries, o, message) ==
    [files |-> o.w.files,
     run |-> [op |-> "apply", file |-> file, prune |-> prune,
              dry_run |-> dry_run, diff |-> entries, log |-> o.w.log,
              removed |-> RemovedCount(entries, prune),
              result |-> IF o.r.ok THEN Ok(message) ELSE o.r]]

\* apply::run from the diff on
apply_diff(file, w, prune, dry_run, entries) ==
    IF dry_run
    THEN RunRecord(file, prune, dry_run, entries, Outcome(w, Ok(<<>>)),
                   "DryRun")
    ELSE IF /\ CountStatus(entries, "Added") = 0
            /\ CountStatus(entries, "Changed") = 0
            /\ RemovedCount(entries, prune) = 0
    THEN RunRecord(file, prune, dry_run, entries, Outcome(w, Ok(<<>>)),
                   "NothingToDo")
    ELSE RunRecord(file, prune, dry_run, entries,
                   ApplyChanges(w, file, entries, prune), "Applied")

apply_run(file, files, prune, dry_run, fail_at) ==
    apply_diff(file, World(files, fail_at), prune, dry_run,
               diff_entries(file, scan_all_units(files)))

---------------------------------------------------------------------------
(* Inputs of the schedule translator                                       *)

MaxLit == 61

MaxStep == 3

MaxHourIn == 24

MaxDayIn == 32

MaxDowIn == 8

Cat2(A, sep, B) == {a \o sep \o b : a \in A, b \in B}

RangeEnds == {0, 1, 5, 30, 31}

StepSet == (0..MaxStep) \cup {10}

PlainToks == {ToStr(n) : n \in 0..MaxLit}

RangeToks == Cat2({ToStr(a) : a \in RangeEnds}, <<"-">>,
                  {ToStr(b) : b \in RangeEnds})

SteppedToks == Cat2(RangeToks, <<"/">>, {ToStr(st) : st \in StepSet})

StarStepToks == {Str("*/") \o ToStr(st) : st \in StepSet}

MalformedToks ==
    {Str("x"), Str("1-"), Str("-5"), Str("1-2-3"), Str("*/"), Str("*/x"),
     Str("1-5/"), Str("a-b/2"), Str("5/1-2"), Str("5/2"), Str("+5"),
     Str("007"), Str("4294967296"), Str("1-x"), Str("1-5/x"), Str("**")}

ListElems ==
    {Str("1"), Str("6"), Str("60"), Str("1-5"), Str("0-30/10"), Str("5-1/2"),
     Str("*/5"), Str("*"), Str(""), Str("x")}

ListToks ==
    Cat2(ListElems, <<",">>, ListElems)
        \cup {Str("1,6,12"), Str("0,15,30,45"), Str("1,,2"), Str("1,2,x")}

NumToks ==
    {<<"*">>} \cup PlainToks \cup RangeToks \cup SteppedToks
        \cup StarStepToks \cup MalformedToks \cup ListToks

WeekdaySpellings ==
    {DOW_FULL_NAMES[i] : i \in 1..7}
        \cup {DOW_NAMES[i] : i \in 1..7}
        \cup {to_lowercase(DOW_NAMES[i]) : i \in 1..7}
        \cup {Str("Monday"), Str("MON"), Str("SUNDAY"), Str("Sunday"),
              Str("m"), Str("mo"), Str("MO"), Str("t"), Str("tu"), Str("th"),
              Str("tues"), Str("Tues"), Str("thur"), Str("wednes"), Str("s"),
              Str("sa"), Str("f"), Str("w"), Str("mond"), Str("mondayx"),
              Str("sunn"), Str("x"), Str("")}

DowNumToks == {ToStr(n) : n \in 0..MaxDowIn} \cup {Str("07"), Str("00"), Str("+7")}

DowEnds ==
    {Str("0"), Str("1"), Str("5"), Str("7"), Str("8"), Str("mon"), Str("Fri"),
     Str("sunday"), Str(""), Str("x")}

DowListElems ==
    {Str("0"), Str("7"), Str("1"), Str("3"), Str("mon"), Str("7-0"),
     Str("1-5"), Str(""), Str("tuesday")}

DowToks ==
    {<<"*">>} \cup (WeekdaySpellings \ {<<>>}) \cup DowNumToks
        \cup Cat2(DowEnds, <<"-">>, DowEnds)
        \cup Cat2(DowListElems, <<",">>, DowListElems)
        \cup {Str("1,3,5"), Str("0,7,0"), Str("1-2-0"), Str("mon-fri,7")}

Five(m, h, d, mo, w) == join(<<m, h, d, mo, w>>, <<" ">>)

FiveFieldInputs ==
    {Five(t, <<"*">>, <<"*">>, <<"*">>, <<"*">>) : t \in NumToks}
        \cup {Five(<<"*">>, t, <<"*">>, <<"*">>, <<"*">>) : t \in NumToks}
        \cup {Five(<<"*">>, <<"*">>, t, <<"*">>, <<"*">>) : t \in NumToks}
        \cup {Five(<<"*">>, <<"*">>, <<"*">>, t, <<"*">>) : t \in NumToks}
        \cup {Five(Str("0"), Str("9"), <<"*">>, <<"*">>, t) : t \in DowToks}
        \cup {Str("0 0 1 1,6 *"), Str("0 0 1 * *"), Str("x y * * *"),
              Str("0 9 * x y"), Str("60 24 32 13 8"), Str("0 9 1-5/0 * mon"),
              Str("59 23 31 12 7"), Str("0-30/10 9 * * 1-5")}

WhitespaceInputs ==
    {Str(""), Str(" "), Str("*"), Str("* *"), Str("* * *"), Str("* * * *"),
     Str("* * * * * *"), Str("0 9 * * * extra words"), Str("x"),
     Str("60 * * *"), Str("  0 9 * * *  "), Str("0  9 *\t* *"),
     Str("\t0 9 * * 7"), Str(" @daily "), Str("@daily /9"), Str("@daily 9"),
     Str(" @monday/9 "), Str("@mon 1st"), Str("@daily/9 * * * *"),
     Str("@foo * * * *"), Str("@ 9 * * *"), Str(" @service"),
     Str("@reboot\t")}

MinuteToks ==
    {Str("0"), Str("00"), Str("5"), Str("05"), Str("30"), Str("59"),
     Str("60"), Str("+5"), Str(""), Str("xx")}

TimeToks ==
    {ToStr(h) : h \in 0..MaxHourIn}
        \cup Cat2({Str("0"), Str("9"), Str("09"), Str("23"), Str("24"),
                   Str(""), Str("abc")}, <<":">>, MinuteToks)
        \cup {Str(""), Str("abc"), Str("+9"), Str("09"), Str("9:30:00"),
              Str("-1"), Str("9.30"), Str("4294967296"),
              Str("9:4294967296"), Str("9:5"), Str("9:"), Str(":30")}

TimesShort ==
    {Str("9"), Str("9:00"), Str("9:30"), Str("0"), Str("23:59"), Str("25"),
     Str("9:60"), Str("abc")}

WeekdayKeywords == {<<"@">> \o w : w \in WeekdaySpellings}

OrdinalSuffixes == {Str("st"), Str("nd"), Str("rd"), Str("th")}

OrdinalKeywords ==
    {<<"@">> \o n \o suf :
        n \in {ToStr(d) : d \in 0..MaxDayIn} \cup {Str("01"), Str("+1")},
        suf \in OrdinalSuffixes}
        \cup {Str("@1ST"), Str("@2Nd"), Str("@st"), Str("@xth"), Str("@1s")}

ClassicKeywords ==
    {Str("@yearly"), Str("@annually"), Str("@monthly"), Str("@weekly"),
     Str("@daily"), Str("@midnight"), Str("@hourly"), Str("@reboot"),
     Str("@service")}

OtherKeywords ==
    {Str("@Daily"), Str("@DAILY"), Str("@Weekly"), Str("@Hourly"),
     Str("@foo"), Str("@dail"), Str("@dailyx"), Str("@Service")}

ExtendedInputs ==
    Cat2({Str("@daily"), Str("@DAILY"), Str("@Daily")}, <<"/">>, TimeToks)
        \cup Cat2(WeekdayKeywords, <<"/">>, TimesShort)
        \cup Cat2(Cat2({Str("@weekly"), Str("@Weekly")}, <<"/">>,
                       WeekdaySpellings \cup DowNumToks),
                  <<"/">>, TimesShort)
        \cup Cat2(Cat2({Str("@monthly")}, <<"/">>,
                       {ToStr(d) : d \in 0..MaxDayIn}
                           \cup {Str("x"), Str(""), Str("+1"), Str("01"),
                                 Str("1st")}),
                  <<"/">>, TimesShort)
        \cup Cat2(OrdinalKeywords, <<"/">>,
                  {Str("9"), Str("9:00"), Str("11:30"), Str("25"), Str("x")})
        \cup Cat2(ClassicKeywords \cup OtherKeywords, <<"/">>,
                  {Str("9"), Str("bar"), Str("")})
        \cup {Str("@daily/9/30"), Str("@daily/abc/def"), Str("@weekly/mon"),
              Str("@weekly/mon/9/1"), Str("@weekly/9"), Str("@monthly/1"),
              Str("@monthly/1/9/0"), Str("@mon/9/1"), Str("@monday/"),
              Str("@1st/9/1"), Str("@1st/"), Str("@32nd/9/1"), Str("@0th/"),
              Str("@32nd/abc"), Str("mon/9"), Str("daily/9"),
              Str("@mon/abc/def"), Str("@Friday/25/x"), Str("@1st/x/y"),
              Str("@31st/9:60/0"), Str("@weekly/x/9/1"), Str("@weekly/x"),
              Str("@monthly/x/9/1"), Str("@monthly/99"),
              Str("@daily/9/30/0"), Str("@DAILY/24/x")}

BareInputs ==
    ClassicKeywords \cup OtherKeywords \cup WeekdayKeywords
        \cup OrdinalKeywords

Inputs ==
    FiveFieldInputs \cup WhitespaceInputs \cup ExtendedInputs \cup BareInputs

---------------------------------------------------------------------------
(* Inputs of apply: the declarative files                                  *)

\* the runs (of apply, and edits of the file) of a behaviour
MaxRuns == 3

\* the systemctl invocation of a run that may fail: 1..MaxFail, or none
MaxFail == 2

TimerEntry(schedule, description, random_delay) ==
    [schedule |-> Str(schedule), command |-> Str("/bin/job --all"),
     workdir |-> Str("/srv"), description |-> description,
     memory_max |-> None, cpu_quota |-> None, io_weight |-> None,
     timeout_stop |-> None, exec_start_pre |-> None,
     exec_stop_post |-> None, log_level_max |-> None,
     random_delay |-> random_delay, env |-> <<>>]

ServiceEntry(command, restart, memory_max, env) ==
    [command |-> Str(command), workdir |-> Str("/srv/web"),
     description |-> Some(Str("Web: server")), restart |-> restart,
     env_file |-> None, memory_max |-> memory_max, cpu_quota |-> None,
     io_weight |-> None, timeout_stop |-> None, exec_start_pre |-> None,
     exec_stop_post |-> None, log_level_max |-> None, env |-> env]

Sdtabfile(timers, services) == [timers |-> timers, services |-> services]

\* one timer with the minute written out
FileDailyLong ==
    Sdtabfile(Str("a") :> TimerEntry("@daily/9:00", None, None), <<>>)

\* the same timer in the form the translator displays, and a service
FileDailyShort ==
    Sdtabfile(Str("a") :> TimerEntry("@daily/9", None, None),
              Str("w") :> ServiceEntry("./web -p 80", Some(Str("on-failure")),
                                       Some(Str("256M")),
                                       <<Str("NODE_ENV=production")>>))

\* a 5-field timer with a description and a delay, and a weekday timer
FileWeekdays ==
    Sdtabfile((Str("a") :> TimerEntry("0 9 * * 1-5", Some(Str("report")),
                                      Some(Str("5m"))))
              @@ (Str("b") :> TimerEntry("@monday/9:30", None, None)),
              <<>>)

\* a weekly timer and a timer whose schedule does not parse
FileInvalid ==
    Sdtabfile((Str("a") :> TimerEntry("@weekly/mon/9", None, None))
              @@ (Str("b") :> TimerEntry("every day", None, None)),
              <<>>)

\* a boot timer, and a service of the default restart policy
FileBoot ==
    Sdtabfile(Str("b") :> TimerEntry("@reboot", None, None),
              Str("w") :> ServiceEntry("/bin/web", None, None, <<>>))

\* a file without entries
FileEmpty == Sdtabfile(<<>>, <<>>)

\* a [timers.w] table and a [services.w] table: one name for two entries
FileSameName ==
    Sdtabfile(Str("w") :> TimerEntry("@hourly", None, None),
              Str("w") :> ServiceEntry("/bin/web", None, None, <<>>))

Files ==
    {FileDailyLong, FileDailyShort, FileWeekdays, FileInvalid, FileBoot,
     FileEmpty, FileSameName}

---------------------------------------------------------------------------
(* src/src/export.rs, and the TOML form of src/src/sdtabfile.rs            *)

\* the TimerEntry that export builds from a unit
export_timer(unit) ==
    [schedule |-> IF IsSome(unit.cron_expr) THEN Unwrap(unit.cron_expr)
                  ELSE Str("?"),
     command |-> unit.command, workdir |-> unit.workdir,
     description |-> description_if_different(unit.description,
                                              unit.command),
     memory_max |-> unit.memory_max, cpu_quota |-> unit.cpu_quota,
     io_weight |-> unit.io_weight, timeout_stop |-> unit.timeout_stop,
     exec_start_pre |-> unit.exec_start_pre,
     exec_stop_post |-> unit.exec_stop_post,
     log_level_max |-> unit.log_level_max,
     random_delay |-> unit.random_delay, env |-> unit.env]

\* the ServiceEntry that export builds from a unit
export_service(unit) ==
    [command |-> unit.command, workdir |-> unit.workdir,
     description |-> description_if_different(unit.description,
                                              unit.command),
     restart |-> unit.restart_policy, env_file |-> unit.env_file,
     memory_max |-> unit.memory_max, cpu_quota |-> unit.cpu_quota,
     io_weight |-> unit.io_weight, timeout_stop |-> unit.timeout_stop,
     exec_start_pre |-> unit.exec_start_pre,
     exec_stop_post |-> unit.exec_stop_post,
     log_level_max |-> unit.log_level_max, env |-> unit.env]

\* the two maps that the loop over the units fills
export_entries(units) ==
    Sdtabfile(
        [n \in {units[i].name :
                  i \in {j \in 1..Len(units) : units[j].unit_type = "Timer"}}
            |-> export_timer(units[CHOOSE i \in 1..Len(units) :
                                       units[i].name = n])],
        [n \in {units[i].name :
                  i \in {j \in 1..Len(units) :
                            units[j].unit_type = "Service"}}
            |-> export_service(units[CHOOSE i \in 1..Len(units) :
                                         units[i].name = n])])

is_default_restart(val) ==
    IF ~IsSome(val) THEN TRUE ELSE Unwrap(val) = Str("always")

\* the keys of an entry that are plain strings; the other keys are optional
\* strings, and env, a list
RequiredKeys == {"schedule", "command", "workdir"}

\* skip_serializing_if of a key of an entry
SkipSerializing(key, value) ==
    IF key \in RequiredKeys THEN FALSE
    ELSE IF key = "env" THEN Len(value) = 0
    ELSE IF key = "restart" THEN is_default_restart(value)
    ELSE ~IsSome(value)

\* the table of an entry in the TOML document: the keys that are written,
\* an optional string written as the string it holds
SerializeEntry(entry) ==
    [key \in {k \in DOMAIN entry : ~SkipSerializing(k, entry[k])} |->
        IF key \in RequiredKeys \/ key = "env" THEN entry[key]
        ELSE Unwrap(entry[key])]

\* the entry read from a table: an absent key takes its default
DeserializeEntry(table, keys) ==
    [key \in keys |->
        IF key \in DOMAIN table
        THEN (IF key \in RequiredKeys \/ key = "env" THEN table[key]
              ELSE Some(table[key]))
        ELSE <<>>]

\* toml::to_string_pretty of a Sdtabfile: an empty map is not written
to_string_pretty(file) ==
    [t \in {k \in {"timers", "services"} : DOMAIN file[k] # {}} |->
        [n \in DOMAIN file[t] |-> SerializeEntry(file[t][n])]]

TimerKeys == DOMAIN TimerEntry("", None, None)

ServiceKeys == DOMAIN ServiceEntry("", None, None, <<>>)

\* toml::from_str of a document: an absent map is empty
from_str(doc) ==
    Sdtabfile(
        IF "timers" \in DOMAIN doc
        THEN [n \in DOMAIN doc.timers |->
                 DeserializeEntry(doc.timers[n], TimerKeys)]
        ELSE <<>>,
        IF "services" \in DOMAIN doc
        THEN [n \in DOMAIN doc.services |->
                 DeserializeEntry(doc.services[n], ServiceKeys)]
        ELSE <<>>)

\* export::run: the document written for the units of the directory
export_run(files) == to_string_pretty(export_entries(scan_all_units(files)))

---------------------------------------------------------------------------
(* The translator as a state machine: an input is drawn, parsed, and the   *)
(* display form of a successful shorthand parse is fed back to parse, as   *)
(* export followed by apply does with the stored display form.            *)

NotParsed == Err("NotParsed", <<>>)

NoFile == [timers |-> <<>>, services |-> <<>>]

Init ==
    /\ expr \in Inputs
    /\ result = NotParsed
    /\ prev = NotParsed
    /\ pc = "start"
    /\ sdtab = NoFile
    /\ unit_files = <<>>
    /\ history = <<>>

Parse ==
    /\ pc = "start"
    /\ result' = parse(expr)
    /\ pc' = "parsed"
    /\ UNCHANGED <<expr, prev, sdtab, unit_files, history>>

Reparse ==
    /\ pc = "parsed"
    /\ result.ok
    /\ IsSome(result.val.display)
    /\ prev' = result
    /\ result' = parse(Unwrap(result.val.display))
    /\ pc' = "reparsed"
    /\ UNCHANGED <<expr, sdtab, unit_files, history>>

Next == Parse \/ Reparse

Spec == Init /\ [][Next]_vars

\* The declarative workflow: a file of Files is there, the unit directory
\* is empty, nothing has run.
InitApply ==
    /\ expr = <<>>
    /\ result = NotParsed
    /\ prev = NotParsed
    /\ pc = "apply"
    /\ sdtab \in Files
    /\ unit_files = <<>>
    /\ history = <<>>

\* sdtab apply <file> [--prune] [--dry-run], with the systemctl invocation
\* that fails
Apply(prune, dry_run, fail_at) ==
    /\ Len(history) < MaxRuns
    /\ \E o \in {apply_run(sdtab, unit_files, prune, dry_run, fail_at)} :
          /\ unit_files' = o.files
          /\ history' = Append(history, o.run)
    /\ UNCHANGED <<sdtab, cronVars>>

\* the user replaces the file between two runs of apply
EditFile(file) ==
    /\ Len(history) < MaxRuns
    /\ history # <<>>
    /\ history[Len(history)].op = "apply"
    /\ file # sdtab
    /\ sdtab' = file
    /\ history' = Append(history, [op |-> "edit", file |-> file])
    /\ UNCHANGED <<unit_files, cronVars>>

\* sdtab export -o <file>: the file is replaced by the export of the units
\* of the directory, and is what the next apply reads
Export ==
    /\ Len(history) < MaxRuns
    /\ sdtab' = from_str(export_run(unit_files))
    /\ history' = Append(history, [op |-> "export", file |-> sdtab',
                                   files |-> unit_files])
    /\ UNCHANGED <<unit_files, cronVars>>

NextApply ==
    \/ \E prune \in BOOLEAN, dry_run \in BOOLEAN, fail_at \in 0..MaxFail :
          Apply(prune, dry_run, fail_at)
    \/ \E file \in Files : EditFile(file)
    \/ Export

SpecApply == InitApply /\ [][NextApply]_vars


---------------------------------------------------------------------------
(* Properties of the translator                                            *)

Trimmed == trim(expr)

Parsed == pc = "parsed"

\* number of maximal runs of non-whitespace characters
FieldCount(s) ==
    Cardinality({i \in 1..Len(s) :
                    ~IsWs(s[i]) /\ (i = 1 \/ IsWs(s[i - 1]))})

\* no shorthand stage claims the input: the extended parser returns "not
\* extended", the classic table has no entry, the incomplete-syntax check
\* raises nothing
FallsThroughShorthand(t) ==
    /\ parse_extended(t).ok
    /\ ~IsSome(parse_extended(t).val)
    /\ ~IsSome(parse_special(t))
    /\ starts_with(t, <<"@">>) => check_incomplete_syntax(t).ok

OnFieldPath == FallsThroughShorthand(Trimmed) /\ FieldCount(expr) = 5

Fields == split_whitespace(Trimmed)

SameOutcome(a, b) ==
    /\ a.ok = b.ok
    /\ a.ok => a.val = b.val
    /\ ~a.ok => a.err = b.err

IsErrorValue(r) == ~r.ok /\ ErrKind(r) \notin {"Panic", "NonTermination"}

\* the numeric literals of one field element: the number itself, the two
\* endpoints of a range, the two endpoints of a stepped range
ElementLiterals(el) ==
    IF starts_with(el, <<"*">>) THEN {}
    ELSE LET body == IF contains(el, "/")
                     THEN Unwrap(split_once(el, "/"))[1]
                     ELSE el
             ends == split(body, "-")
         IN {parse_u32(ends[i]).val :
                i \in {j \in 1..Len(ends) : parse_u32(ends[j]).ok}}

FieldLiterals(tok) ==
    UNION {ElementLiterals(split(tok, ",")[i]) :
              i \in 1..Len(split(tok, ","))}

LiteralsInRange(tok, field_type) ==
    \A n \in FieldLiterals(tok) :
        FieldRange(field_type)[1] <= n /\ n <= FieldRange(field_type)[2]

AllLiteralsInRange ==
    /\ LiteralsInRange(Fields[1], "Minute")
    /\ LiteralsInRange(Fields[2], "Hour")
    /\ LiteralsInRange(Fields[3], "DayOfMonth")
    /\ LiteralsInRange(Fields[4], "Month")

\* C1: every input accepted through the 5-field path has all numeric
\* literals of minute, hour, day-of-month and month inside the field's range
\* (0-59, 0-23, 1-31, 1-12); an input with a literal outside is rejected
\* with an error and yields no Calendar.
C1_LiteralsWithinFieldRange ==
    (Parsed /\ OnFieldPath) =>
        /\ result.ok => AllLiteralsInRange
        /\ ~AllLiteralsInRange => IsErrorValue(result)

\* C2: an input whose field count is not 5 and that no shorthand stage
\* recognizes fails with 'expected 5 fields, got N', N the field count.
C2_FieldCountError ==
    (Parsed /\ FallsThroughShorthand(Trimmed) /\ FieldCount(expr) # 5) =>
        /\ ~result.ok
        /\ ErrKind(result) = "ExpectedFiveFields"
        /\ ErrDetail(result) = FieldCount(expr)

C2_Witness ==
    /\ Parsed
    /\ FallsThroughShorthand(Trimmed)
    /\ FieldCount(expr) > 5
    /\ ~result.ok
    /\ ErrKind(result) = "ExpectedFiveFields"

Populated(sched) ==
    (IF IsSome(sched.on_calendar) THEN 1 ELSE 0)
        + (IF IsSome(sched.on_boot_sec) THEN 1 ELSE 0)
        + (IF sched.is_service THEN 1 ELSE 0)

\* C3: every Schedule a successful parse returns has exactly one of
\* on_calendar, on_boot_sec and is_service populated; '@service' gives the
\* service marker alone and '@reboot' the boot delay alone.
C3_ExactlyOneVariant ==
    /\ (pc \in {"parsed", "reparsed"} /\ result.ok) =>
           Populated(result.val) = 1
    /\ (Parsed /\ Trimmed = Str("@service")) =>
           result.ok /\ result.val.is_service
    /\ (Parsed /\ Trimmed = Str("@reboot")) =>
           result.ok /\ IsSome(result.val.on_boot_sec)

C3_Witness ==
    /\ Parsed
    /\ Trimmed = Str("@service")
    /\ result.ok
    /\ result.val.is_service
    /\ ~IsSome(result.val.on_calendar)
    /\ ~IsSome(result.val.on_boot_sec)

\* C4: feeding the display form of a successful classic or extended
\* shorthand parse back into parse succeeds with an equal on_calendar,
\* on_boot_sec and is_service, and the same display form again.
C4_DisplayRoundTrip ==
    pc = "reparsed" =>
        /\ result.ok
        /\ result.val.on_calendar = prev.val.on_calendar
        /\ result.val.on_boot_sec = prev.val.on_boot_sec
        /\ result.val.is_service = prev.val.is_service
        /\ result.val.display = prev.val.display

C4_Witness ==
    /\ pc = "reparsed"
    /\ result.ok
    /\ IsSome(result.val.on_calendar)
    /\ Unwrap(prev.val.display) # Trimmed
    /\ contains(Unwrap(prev.val.display), ":")

\* the positions of history at which apply runs again on the file that the
\* run before it, no dry run, has applied without error
Reapplied ==
    {i \in 2..Len(history) :
        /\ history[i].op = "apply"
        /\ history[i - 1].op = "apply"
        /\ history[i].file = history[i - 1].file
        /\ ~history[i - 1].dry_run
        /\ history[i - 1].result.ok}

\* the timers of the file of a run whose schedule parses
ParsedTimers(run) ==
    {n \in DOMAIN run.file.timers : parse(run.file.timers[n].schedule).ok}

\* the run has neither removed nor added the name
Untouched(run, name) ==
    \A j \in 1..Len(run.log) : run.log[j].name # name

\* C5: when apply has installed the timers of a file and runs again on the
\* unchanged file, every timer whose schedule string parses is classified
\* Unchanged and is neither removed nor added, whatever the spelling of the
\* schedule ('@daily/9:00', '@monday/9', '@weekly/mon/9').
C5_ReapplyUnchanged ==
    \A i \in Reapplied :
        \A k \in 1..Len(history[i].diff) :
            (/\ history[i].diff[k].unit_type = "Timer"
             /\ history[i].diff[k].name \in ParsedTimers(history[i]))
            => /\ history[i].diff[k].status = "Unchanged"
               /\ Untouched(history[i], history[i].diff[k].name)

\* the one or two endpoints of a day-of-week list element
Endpoints(el) ==
    IF IsSome(split_once(el, "-")) THEN Unwrap(split_once(el, "-"))
    ELSE <<el>>

SwapSunday(tok) ==
    IF tok = Str("0") THEN Str("7")
    ELSE IF tok = Str("7") THEN Str("0")
    ELSE tok

\* the day-of-week field with endpoint j of list element i swapped 0 <-> 7
SwapAt(field, i, j) ==
    LET els == split(field, ",")
        ends == Endpoints(els[i])
        el == join([k \in 1..Len(ends) |->
                       IF k = j THEN SwapSunday(ends[k]) ELSE ends[k]],
                   <<"-">>)
    IN join([k \in 1..Len(els) |-> IF k = i THEN el ELSE els[k]], <<",">>)

DowPositions(field) ==
    {<<i, j>> \in (1..Len(field)) \X (1..2) :
        /\ i <= Len(split(field, ","))
        /\ j <= Len(Endpoints(split(field, ",")[i]))}

\* C6: in the day-of-week field the numeric tokens 0 and 7 both give 'Sun':
\* replacing 0 by 7 or 7 by 0 as a single token, list element or range
\* endpoint leaves the outcome of parse unchanged.
C6_SundayZeroAndSeven ==
    (Parsed /\ OnFieldPath) =>
        /\ \A p \in DowPositions(Fields[5]) :
               SameOutcome(result,
                           parse(Five(Fields[1], Fields[2], Fields[3],
                                      Fields[4],
                                      SwapAt(Fields[5], p[1], p[2]))))
        /\ (Fields[5] \in {Str("0"), Str("7")} /\ result.ok) =>
               starts_with(Unwrap(result.val.on_calendar), Str("Sun "))

C6_Witness ==
    /\ Parsed
    /\ OnFieldPath
    /\ result.ok
    /\ Fields[5] = Str("7")
    /\ starts_with(Unwrap(result.val.on_calendar), Str("Sun "))

\* a minute field of the form A-B/S whose three numbers parse, as <<A, B, S>>
SteppedParts(tok) ==
    LET so == split_once(tok, "/")
        se == split_once(Unwrap(so)[1], "-")
        a == parse_u32(Unwrap(se)[1])
        b == parse_u32(Unwrap(se)[2])
        st == parse_u32(Unwrap(so)[2])
    IN IF IsSome(so) /\ IsSome(se) /\ a.ok /\ b.ok /\ st.ok
       THEN Some(<<a.val, b.val, st.val>>)
       ELSE None

\* C7: a stepped range A-B/S expands to the ascending comma list A, A+S,
\* A+2S, ... of exactly floor((B-A)/S)+1 two-digit values, none above B.
C7_SteppedRangeExpansion ==
    (/\ Parsed
     /\ OnFieldPath
     /\ IsSome(SteppedParts(Fields[1]))
     /\ \A k \in 2..5 : Fields[k] = <<"*">>) =>
        LET abs == Unwrap(SteppedParts(Fields[1]))
        IN /\ abs[3] # 0
           /\ LET n == ((abs[2] - abs[1]) \div abs[3]) + 1
              IN /\ n >= 1
                 /\ result.ok
                 /\ Unwrap(result.val.on_calendar) =
                        Str("*-*-* *:")
                            \o join([k \in 1..n |->
                                        Pad2(abs[1] + (k - 1) * abs[3])],
                                    <<",">>)
                            \o Str(":00")

\* a non-numeric single token in the day-of-week field of an input whose
\* other four fields are valid
DowNameToken ==
    /\ Parsed
    /\ OnFieldPath
    /\ parse_field(Fields[1], "Minute").ok
    /\ parse_field(Fields[2], "Hour").ok
    /\ parse_field(Fields[3], "DayOfMonth").ok
    /\ parse_field(Fields[4], "Month").ok
    /\ Fields[5] # <<"*">>
    /\ ~contains(Fields[5], ",")
    /\ ~contains(Fields[5], "-")
    /\ ~parse_u32(Fields[5]).ok

\* weekdays whose full name has the lowercased token as a prefix (a short
\* name is itself a prefix of its full name)
FullNameMatches(tok) ==
    {i \in 1..7 : starts_with(DOW_FULL_NAMES[i], to_lowercase(tok))}

\* weekdays whose short name has the lowercased token as a prefix
ShortNameMatches(tok) ==
    {i \in 1..7 :
        starts_with(to_lowercase(DOW_NAMES[i]), to_lowercase(tok))}

WeeklyParts == split(Trimmed, "/")

IsWeeklyForm ==
    /\ Parsed
    /\ Len(WeeklyParts) = 3
    /\ to_lowercase(WeeklyParts[1]) = Str("@weekly")

IsBareKeyword ==
    /\ Parsed
    /\ starts_with(Trimmed, <<"@">>)
    /\ ~contains(Trimmed, "/")
    /\ FieldCount(expr) = 1

\* the '@<weekday-keyword>/<time>' form accepts K: 'K/9' parses to a weekly
\* calendar at 09:00
AcceptedAsWeekday(k) ==
    LET r == parse(k \o Str("/9"))
    IN /\ r.ok
       /\ \E i \in 1..7 :
              r.val.on_calendar = Some(WeeklyCalendar(DOW_NAMES[i], 9, 0))

IsInRangeOrdinal(k) ==
    \E d \in 1..31 : \E suf \in OrdinalSuffixes :
        to_lowercase(k) = <<"@">> \o ToStr(d) \o suf

\* C10: a bare keyword that the weekday form accepts, or a bare ordinal
\* keyword with a day in 1-31, fails with 'Missing time for ...' and not
\* with the field-count error.
C10_BareKeywordMissingTime ==
    (IsBareKeyword
        /\ (AcceptedAsWeekday(Trimmed) \/ IsInRangeOrdinal(Trimmed))) =>
        ~result.ok /\ ErrKind(result) = "MissingTime"

\* the slash-separated segments of the trimmed input
Segments == split(Trimmed, "/")

\* the days n for which the keyword is '@<n><st|nd|rd|th>', in any casing
OrdinalDayOf(keyword) ==
    {n \in 0..MaxDayIn :
        \E suf \in OrdinalSuffixes :
            to_lowercase(keyword) = <<"@">> \o ToStr(n) \o suf}

\* C11: an ordinal keyword '@<n><st|nd|rd|th>' with n outside 1-31 fails
\* with 'Day must be 1-31, got n', with no segment after it and with any
\* segments after it (a valid time, an invalid time, several segments).
C11_OutOfRangeOrdinalError ==
    Parsed =>
        \A n \in OrdinalDayOf(Segments[1]) :
            (n < 1 \/ n > 31) =>
                /\ ~result.ok
                /\ ErrKind(result) = "DayMustBe1To31Got"
                /\ ErrDetail(result) = n

C11_Witness ==
    /\ Parsed
    /\ 32 \in OrdinalDayOf(Segments[1])
    /\ Len(Segments) = 3
    /\ ~result.ok
    /\ ErrKind(result) = "DayMustBe1To31Got"
    /\ ErrDetail(result) = 32

\* an input of the form @daily/<time>
IsDailyForm ==
    /\ Parsed
    /\ Len(Segments) = 2
    /\ to_lowercase(Segments[1]) = Str("@daily")

\* the hour component and, after the first colon, the minute component
TimeParts(t) ==
    IF contains(t, ":") THEN Unwrap(split_once(t, ":")) ELSE <<t>>

\* the value of the minute component, 0 when there is none
MinuteOf(p) == IF Len(p) = 2 THEN parse_u32(p[2]) ELSE Ok(0)

\* C12: a time argument is accepted exactly when it is 'H' or 'H:M' with H
\* an unsigned integer in 0-23 and M one in 0-59, the minute being 0 when
\* absent; a component that is not an unsigned integer gives 'Invalid hour'
\* or 'Invalid minute', an integer out of range gives 'Hour must be 0-23'
\* or 'Minute must be 0-59'.
C12_TimeSpecRule ==
    IsDailyForm =>
        /\ result.ok <=>
               /\ parse_u32(TimeParts(Segments[2])[1]).ok
               /\ MinuteOf(TimeParts(Segments[2])).ok
               /\ parse_u32(TimeParts(Segments[2])[1]).val <= 23
               /\ MinuteOf(TimeParts(Segments[2])).val <= 59
        /\ result.ok =>
               result.val.on_calendar =
                   Some(Str("*-*-* ")
                        \o Pad2(parse_u32(TimeParts(Segments[2])[1]).val)
                        \o <<":">>
                        \o Pad2(MinuteOf(TimeParts(Segments[2])).val)
                        \o Str(":00"))
        /\ ~parse_u32(TimeParts(Segments[2])[1]).ok =>
               /\ ErrKind(result) = "InvalidHour"
               /\ ErrDetail(result) = TimeParts(Segments[2])[1]
        /\ (/\ parse_u32(TimeParts(Segments[2])[1]).ok
            /\ ~MinuteOf(TimeParts(Segments[2])).ok) =>
               /\ ErrKind(result) = "InvalidMinute"
               /\ ErrDetail(result) = TimeParts(Segments[2])[2]
        /\ (/\ parse_u32(TimeParts(Segments[2])[1]).ok
            /\ MinuteOf(TimeParts(Segments[2])).ok
            /\ parse_u32(TimeParts(Segments[2])[1]).val > 23) =>
               ErrKind(result) = "HourMustBe0To23"
        /\ (/\ parse_u32(TimeParts(Segments[2])[1]).ok
            /\ MinuteOf(TimeParts(Segments[2])).ok
            /\ parse_u32(TimeParts(Segments[2])[1]).val <= 23
            /\ MinuteOf(TimeParts(Segments[2])).val > 59) =>
               ErrKind(result) = "MinuteMustBe0To59"

C12_Witness ==
    /\ IsDailyForm
    /\ Len(TimeParts(Segments[2])) = 2
    /\ parse_u32(TimeParts(Segments[2])[1]).ok
    /\ parse_u32(TimeParts(Segments[2])[1]).val > 23
    /\ ~result.ok
    /\ ErrKind(result) = "InvalidMinute"

\* an input of an extended shorthand form: '@' first, at least one slash
IsExtendedInput ==
    /\ Parsed
    /\ starts_with(Trimmed, <<"@">>)
    /\ Len(Segments) >= 2

\* the segment after the last slash
LastSegment == Segments[Len(Segments)]

\* the hours 0-23 that the string is the decimal form of
HoursOf(t) == {h \in 0..23 : t = ToStr(h)}

\* the <<hour, minute>> pairs with a minute in 1-59 that the string is the
\* 'H:M' form of, the minute written with or without a leading zero
NonZeroTimesOf(t) ==
    {hm \in (0..23) \X (1..59) :
        \/ t = ToStr(hm[1]) \o <<":">> \o ToStr(hm[2])
        \/ t = ToStr(hm[1]) \o <<":">> \o Pad2(hm[2])}

\* C13: for every extended form and every hour H in 0-23, '<form>/H' and
\* '<form>/H:00' have the same outcome, the same calendar and the same
\* display, and that display ends in '/H' with no minute; a minute in 1-59
\* is displayed as 'H:MM'.
C13_ZeroMinuteOmitted ==
    IsExtendedInput =>
        /\ HoursOf(LastSegment) # {} =>
               /\ SameOutcome(result, parse(Trimmed \o Str(":00")))
               /\ result.ok =>
                      /\ ends_with(Unwrap(result.val.display),
                                   <<"/">> \o LastSegment)
                      /\ ~contains(Unwrap(result.val.display), ":")
        /\ \A hm \in NonZeroTimesOf(LastSegment) :
               result.ok =>
                   ends_with(Unwrap(result.val.display),
                             <<"/">> \o ToStr(hm[1]) \o <<":">>
                                 \o Pad2(hm[2]))

C13_Witness ==
    /\ IsExtendedInput
    /\ Len(Segments) = 3
    /\ Segments[1] = Str("@monthly")
    /\ LastSegment = Str("9")
    /\ result.ok
    /\ parse(Trimmed \o Str(":00")).ok
    /\ parse(Trimmed \o Str(":00")).val.display = result.val.display
    /\ ends_with(Unwrap(result.val.display), Str("/9"))

\* 'HH:MM:00' of a time <<hour, minute>>
ClockOf(t) == Pad2(t[1]) \o <<":">> \o Pad2(t[2]) \o Str(":00")

\* the time <<hour, minute>> as a display shows it
ShownTime(t) ==
    IF t[2] = 0 THEN ToStr(t[1])
    ELSE ToStr(t[1]) \o <<":">> \o Pad2(t[2])

\* the schedule of weekday i at the time t
IsWeekdayAt(sched, i, t) ==
    /\ sched.on_calendar = Some(DOW_NAMES[i] \o Str(" *-*-* ") \o ClockOf(t))
    /\ sched.display = Some(<<"@">> \o to_lowercase(DOW_NAMES[i]) \o <<"/">>
                            \o ShownTime(t))

\* the spelling w names a weekday and the time argument is valid: both
\* forms give the schedule of a weekday that w spells, and the same one
SameWeekdayBothForms(w, time) ==
    (/\ w # <<>>
     /\ FullNameMatches(w) # {}
     /\ parse_time_spec(time).ok) =>
        /\ result.ok
        /\ \E i \in FullNameMatches(w) :
               IsWeekdayAt(result.val, i, parse_time_spec(time).val)
        /\ SameOutcome(parse(Str("@weekly/") \o w \o <<"/">> \o time),
                       parse(<<"@">> \o w \o <<"/">> \o time))

OrdinalName(d) ==
    ToStr(d) \o (IF d \in {1, 21, 31} THEN Str("st")
                 ELSE IF d \in {2, 22} THEN Str("nd")
                 ELSE IF d \in {3, 23} THEN Str("rd")
                 ELSE Str("th"))

\* the schedule of day d of the month at the time t
IsMonthDayAt(sched, d, t) ==
    /\ sched.on_calendar =
           Some(Str("*-*-") \o Pad2(d) \o <<" ">> \o ClockOf(t))
    /\ sched.display =
           Some(<<"@">> \o OrdinalName(d) \o <<"/">> \o ShownTime(t))

\* the parsed input names day d with the time argument: for d in 1-31 and
\* a valid time it is the schedule of day d, equal to what '@monthly/d/time'
\* and '@d<suffix>/time' give for every suffix; for d outside 1-31 it is the
\* range error given
MonthDayRule(d, time, range_error) ==
    IF d >= 1 /\ d <= 31
    THEN parse_time_spec(time).ok =>
             /\ result.ok
             /\ IsMonthDayAt(result.val, d, parse_time_spec(time).val)
             /\ parse(Str("@monthly/") \o ToStr(d) \o <<"/">> \o time)
                    = result
             /\ \A suf \in OrdinalSuffixes :
                    parse(<<"@">> \o ToStr(d) \o suf \o <<"/">> \o time)
                        = result
    ELSE ~result.ok /\ ErrKind(result) = range_error

\* the days d for which the input is '@monthly/<d>/<time>'
MonthlyDayOf ==
    IF Len(Segments) = 3 /\ to_lowercase(Segments[1]) = Str("@monthly")
    THEN {d \in 0..MaxDayIn : Segments[2] = ToStr(d)}
    ELSE {}

\* C15: for every day d in 1-31 and valid time, '@monthly/<d>/<time>' and
\* '@<d><suffix>/<time>' with any of st, nd, rd, th give the same Calendar
\* '*-*-DD HH:MM:00' and the same display '@<ordinal of d>/<time>', the
\* suffix being that of d and not the one written; a day outside 1-31 is
\* rejected with a range error in both forms.
C15_MonthlyFormsAgree ==
    IsExtendedInput =>
        /\ \A d \in MonthlyDayOf :
               MonthDayRule(d, Segments[3], "DayMustBeBetween1And31")
        /\ Len(Segments) = 2 =>
               \A d \in OrdinalDayOf(Segments[1]) :
                   MonthDayRule(d, Segments[2], "DayMustBe1To31Got")

C15_Witness ==
    /\ IsExtendedInput
    /\ Segments = <<Str("@1th"), Str("9")>>
    /\ result.ok
    /\ result.val.on_calendar = Some(Str("*-*-01 09:00:00"))
    /\ result.val.display = Some(Str("@1st/9"))
    /\ parse(Str("@monthly/1/9")) = result

\* the last decimal digit of n, as a character
LastDigit(n) == ToStr(n)[Len(ToStr(n))]

\* the suffix rule: by the last digit, 11, 12 and 13 excepted
RuleSuffix(n) ==
    IF LastDigit(n) = "1" /\ n # 11 THEN Str("st")
    ELSE IF LastDigit(n) = "2" /\ n # 12 THEN Str("nd")
    ELSE IF LastDigit(n) = "3" /\ n # 13 THEN Str("rd")
    ELSE Str("th")

\* the ordinals that the rule is stated with
OrdinalExamples ==
    {<<1, Str("1st")>>, <<2, Str("2nd")>>, <<3, Str("3rd")>>,
     <<4, Str("4th")>>, <<11, Str("11th")>>, <<12, Str("12th")>>,
     <<13, Str("13th")>>, <<21, Str("21st")>>, <<22, Str("22nd")>>,
     <<23, Str("23rd")>>, <<31, Str("31st")>>}

\* the days that the input names, in the ordinal or in the @monthly form
DayOfInput ==
    MonthlyDayOf
        \cup (IF Len(Segments) = 2 THEN OrdinalDayOf(Segments[1]) ELSE {})

\* C16: the display of a schedule for day n of the month, n in 1-31, names
\* the day as n followed by 'st' when n ends in 1 and is not 11, 'nd' when
\* it ends in 2 and is not 12, 'rd' when it ends in 3 and is not 13, and
\* 'th' otherwise: 1st, 2nd, 3rd, 4th, 11th, 12th, 13th, 21st, 22nd, 23rd,
\* 31st.
C16_OrdinalSuffix ==
    (IsExtendedInput /\ result.ok) =>
        \A n \in DayOfInput :
            /\ n >= 1 /\ n <= 31
            /\ starts_with(Unwrap(result.val.display),
                           <<"@">> \o ToStr(n) \o RuleSuffix(n) \o <<"/">>)
            /\ \A ex \in OrdinalExamples :
                   ex[1] = n =>
                       starts_with(Unwrap(result.val.display),
                                   <<"@">> \o ex[2] \o <<"/">>)

C16_Witness ==
    /\ IsExtendedInput
    /\ 11 \in DayOfInput
    /\ Segments[1] = Str("@11st")
    /\ result.ok
    /\ starts_with(Unwrap(result.val.display), Str("@11th/"))

\* the classic shorthand table: keyword, Calendar, boot delay, service
\* marker, primary keyword
ClassicTable ==
    {<<Str("@yearly"), Some(Str("*-01-01 00:00:00")), None, FALSE,
       Str("@yearly")>>,
     <<Str("@annually"), Some(Str("*-01-01 00:00:00")), None, FALSE,
       Str("@yearly")>>,
     <<Str("@monthly"), Some(Str("*-*-01 00:00:00")), None, FALSE,
       Str("@monthly")>>,
     <<Str("@weekly"), Some(Str("Mon *-*-* 00:00:00")), None, FALSE,
       Str("@weekly")>>,
     <<Str("@daily"), Some(Str("*-*-* 00:00:00")), None, FALSE,
       Str("@daily")>>,
     <<Str("@midnight"), Some(Str("*-*-* 00:00:00")), None, FALSE,
       Str("@daily")>>,
     <<Str("@hourly"), Some(Str("*-*-* *:00:00")), None, FALSE,
       Str("@hourly")>>,
     <<Str("@reboot"), None, Some(Str("1min")), FALSE, Str("@reboot")>>,
     <<Str("@service"), None, None, TRUE, Str("@service")>>}

\* C17: a trimmed input that is a keyword of the classic table gives the
\* table's Calendar, boot delay '1min' or service marker, with the primary
\* keyword as display; the match is of the whole trimmed string, in the
\* keyword's own casing: no other input gets a table entry.
C17_ClassicTable ==
    Parsed =>
        /\ \A row \in ClassicTable :
               Trimmed = row[1] =>
                   /\ result.ok
                   /\ result.val.on_calendar = row[2]
                   /\ result.val.on_boot_sec = row[3]
                   /\ result.val.is_service = row[4]
                   /\ result.val.display = Some(row[5])
        /\ (/\ result.ok
            /\ \E row \in ClassicTable : result.val.display = Some(row[5]))
               => \E row \in ClassicTable : Trimmed = row[1]
        /\ (/\ starts_with(Trimmed, <<"@">>)
            /\ ~contains(Trimmed, "/")
            /\ \A row \in ClassicTable : Trimmed # row[1]) => ~result.ok

C17_Witness ==
    /\ Parsed
    /\ expr # Trimmed
    /\ Trimmed = Str("@daily")
    /\ result.ok
    /\ result.val.on_calendar = Some(Str("*-*-* 00:00:00"))
    /\ result.val.display = Some(Str("@daily"))

\* the string is the decimal form of a number up to MaxLit
IsNumber(s) == \E k \in 0..MaxLit : s = ToStr(k)

NumberOf(s) == CHOOSE k \in 0..MaxLit : s = ToStr(k)

\* the shape of a field element: '*/N', 'A-B', 'N', or another
ElementShape(el) ==
    IF starts_with(el, Str("*/")) /\ IsNumber(SubSeq(el, 3, Len(el)))
    THEN "StarStep"
    ELSE IF Len(split(el, "-")) = 2 /\ IsNumber(split(el, "-")[1])
            /\ IsNumber(split(el, "-")[2])
    THEN "Range"
    ELSE IF IsNumber(el) THEN "Number"
    ELSE "Other"

\* the fragment of an element of one of the three shapes, in a field whose
\* minimum is min
ElementFragment(el, min) ==
    CASE ElementShape(el) = "StarStep" ->
             ToStr(min) \o <<"/">> \o SubSeq(el, 3, Len(el))
      [] ElementShape(el) = "Range" ->
             split(el, "-")[1] \o Str("..") \o split(el, "-")[2]
      [] ElementShape(el) = "Number" ->
             IF NumberOf(el) < 10 THEN <<"0">> \o el ELSE el

\* the field is '*', or an element or a comma list of elements of the
\* three shapes
FieldInShape(tok) ==
    \/ tok = <<"*">>
    \/ \A i \in 1..Len(split(tok, ",")) :
           ElementShape(split(tok, ",")[i]) # "Other"

\* the fragment of a field in shape
FieldFragment(tok, min) ==
    IF tok = <<"*">> THEN <<"*">>
    ELSE join([i \in 1..Len(split(tok, ",")) |->
                  ElementFragment(split(tok, ",")[i], min)], <<",">>)

\* C18: in each of the four numeric fields '*' maps to '*', '*/N' to
\* '<min>/N' with <min> 0 for minute and hour and 1 for day-of-month and
\* month, a number N to N padded to two digits, a range A-B to 'A..B', and
\* a comma list to the comma-join of the fragments of its elements, in
\* their order.
C18_FieldElementMapping ==
    (/\ Parsed
     /\ OnFieldPath
     /\ \A k \in 1..4 : FieldInShape(Fields[k])
     /\ Fields[5] = <<"*">>) =>
        /\ AllLiteralsInRange => result.ok
        /\ result.ok =>
               result.val.on_calendar =
                   Some(Str("*-") \o FieldFragment(Fields[4], 1) \o <<"-">>
                        \o FieldFragment(Fields[3], 1) \o <<" ">>
                        \o FieldFragment(Fields[2], 0) \o <<":">>
                        \o FieldFragment(Fields[1], 0) \o Str(":00"))

C18_Witness ==
    /\ Parsed
    /\ OnFieldPath
    /\ Fields[3] = Str("*/5,1-5")
    /\ result.ok
    /\ result.val.on_calendar = Some(Str("*-*-1/5,1..5 *:*:00"))

\* the weekday fragment of a day-of-week list element: the canonical name,
\* or '<start>..<end>' of the canonical names of a range
DowElementFragment(el) ==
    IF contains(el, "-")
    THEN dow_to_name(Unwrap(split_once(el, "-"))[1]).val \o Str("..")
             \o dow_to_name(Unwrap(split_once(el, "-"))[2]).val
    ELSE dow_to_name(el).val

\* the weekday part of the Calendar: nothing for '*', else the comma-join
\* of the fragments of the list elements, and a space
WeekdayPart(tok) ==
    IF tok = <<"*">> THEN <<>>
    ELSE join([i \in 1..Len(split(tok, ",")) |->
                  DowElementFragment(split(tok, ",")[i])], <<",">>)
             \o <<" ">>

\* C19: on the 5-field path the Calendar is '<weekday> ', present exactly
\* when the day-of-week field is not '*', then '*-<month>-<day>', a space
\* and '<hour>:<minute>:00'; a day-of-week range is '<start>..<end>' and a
\* list the comma-join of the canonical names: '0 9 * * 1-5' gives
\* 'Mon..Fri *-*-* 09:00:00' and '* * * * *' gives '*-*-* *:*:00'.
C19_CalendarAssembly ==
    (Parsed /\ OnFieldPath) =>
        /\ result.ok =>
               result.val.on_calendar =
                   Some(WeekdayPart(Fields[5])
                        \o Str("*-") \o parse_field(Fields[4], "Month").val
                        \o <<"-">> \o parse_field(Fields[3], "DayOfMonth").val
                        \o <<" ">> \o parse_field(Fields[2], "Hour").val
                        \o <<":">> \o parse_field(Fields[1], "Minute").val
                        \o Str(":00"))
        /\ Fields = <<Str("0"), Str("9"), <<"*">>, <<"*">>, Str("1-5")>> =>
               /\ result.ok
               /\ result.val.on_calendar =
                      Some(Str("Mon..Fri *-*-* 09:00:00"))
        /\ Fields = <<<<"*">>, <<"*">>, <<"*">>, <<"*">>, <<"*">>>> =>
               /\ result.ok
               /\ result.val.on_calendar = Some(Str("*-*-* *:*:00"))

C19_Witness ==
    /\ Parsed
    /\ OnFieldPath
    /\ Fields[5] = Str("mon,7-0")
    /\ result.ok
    /\ result.val.on_calendar = Some(Str("Mon,Sun..Sun *-*-* 09:00:00"))

\* C20: a successful parse through the 5-field path has no display, and a
\* successful parse through the classic table or the extended shorthand
\* parser has a display, a non-empty string that starts with '@'.
C20_DisplayPresence ==
    (Parsed /\ result.ok) =>
        /\ OnFieldPath <=> ~starts_with(Trimmed, <<"@">>)
        /\ IF OnFieldPath
           THEN result.val.display = None
           ELSE /\ IsSome(result.val.display)
                /\ Len(Unwrap(result.val.display)) > 1
                /\ starts_with(Unwrap(result.val.display), <<"@">>)

C20_Witness ==
    /\ Parsed
    /\ OnFieldPath
    /\ result.ok
    /\ IsSome(result.val.on_calendar)
    /\ result.val.display = None

\* whitespace put before or after an input
Paddings == {<<>>, <<" ">>, Str("\t\n "), Str("\r\n")}

\* whitespace put between the fields of the 5-field form
Separators == {<<" ">>, Str("  "), <<"\t">>, Str(" \t ")}

\* C21: parse of an input, of the input without its leading and trailing
\* whitespace, and of the input with whitespace added before and after it
\* give the same outcome; in the 5-field form the fields are separated by
\* any run of whitespace, and the length of the runs does not change the
\* outcome.
C21_WhitespaceInsensitive ==
    Parsed =>
        /\ SameOutcome(result, parse(Trimmed))
        /\ \A before \in Paddings : \A after \in Paddings :
               /\ SameOutcome(result, parse(before \o expr \o after))
               /\ SameOutcome(result, parse(before \o Trimmed \o after))
        /\ OnFieldPath =>
               \A sep \in Separators :
                   SameOutcome(result, parse(join(Fields, sep)))

C21_Witness ==
    /\ Parsed
    /\ expr = Str("\t0 9 * * 7")
    /\ result.ok
    /\ result = parse(Str("0   9 * \t * 7 "))
    /\ result.val.on_calendar = Some(Str("Sun *-*-* 09:00:00"))

\* the elements of the day-of-week field and the endpoints of its ranges
DowTokens ==
    UNION {LET parts == split(split(Fields[5], ",")[i], "-")
           IN  {parts[j] : j \in 1..Len(parts)}
           : i \in 1..Len(split(Fields[5], ","))}

\* an input with an empty day-of-week token: an empty list element or range
\* endpoint of the fifth field, an empty <dow> of @weekly/<dow>/<time>, or
\* the keyword '@' alone before a '/'
HasEmptyDowToken ==
    /\ Parsed
    /\ \/ /\ OnFieldPath
          /\ Fields[5] # <<"*">>
          /\ <<>> \in DowTokens
       \/ /\ Len(Segments) = 3
          /\ Segments[1] = Str("@weekly")
          /\ Segments[2] = <<>>
       \/ /\ Len(Segments) >= 2
          /\ Segments[1] = <<"@">>

KeywordName ==
    IF starts_with(Segments[1], <<"@">>)
    THEN SubSeq(to_lowercase(Segments[1]), 2, Len(Segments[1]))
    ELSE <<>>

\* the sub-grammar the keyword of an extended input selects: "daily",
\* "weekly", "monthly", "weekday" (a non-empty prefix of a full weekday
\* name), "ordinal" (a day 1-31 with one of the four suffixes) or "none"
SubGrammar ==
    IF KeywordName = Str("daily") THEN "daily"
    ELSE IF KeywordName = Str("weekly") THEN "weekly"
    ELSE IF KeywordName = Str("monthly") THEN "monthly"
    ELSE IF KeywordName # <<>>
            /\ \E i \in 1..7 : starts_with(DOW_FULL_NAMES[i], KeywordName)
    THEN "weekday"
    ELSE IF IsInRangeOrdinal(Segments[1]) THEN "ordinal"
    ELSE "none"

\* the number of slash-delimited arguments each sub-grammar requires
RequiredArguments ==
    [daily |-> 1, weekly |-> 2, monthly |-> 2, weekday |-> 1, ordinal |-> 1]

\* the arity error of each sub-grammar
ArityError ==
    [daily |-> "InvalidDailySyntax", weekly |-> "InvalidWeeklySyntax",
     monthly |-> "InvalidMonthlySyntax", weekday |-> "InvalidWeekdaySyntax",
     ordinal |-> "InvalidOrdinalSyntax"]

ArityErrors == {ArityError[g] : g \in DOMAIN ArityError}

\* C23: an extended input (a keyword followed by at least one slash) whose
\* keyword selects a sub-grammar fails with the arity error of that
\* sub-grammar whenever the number of slash-delimited arguments is not the
\* required one (one for @daily, a weekday keyword and an in-range ordinal,
\* two for @weekly and @monthly), whatever the arguments are; with the
\* required number of arguments no arity error is reported.
C23_ExtendedArity ==
    (IsExtendedInput /\ SubGrammar # "none") =>
        IF Len(Segments) - 1 # RequiredArguments[SubGrammar]
        THEN /\ ~result.ok
             /\ ErrKind(result) = ArityError[SubGrammar]
        ELSE result.ok \/ ErrKind(result) \notin ArityErrors

\* '@daily/abc/def': two arguments, the first not a time
C23_Witness ==
    /\ IsExtendedInput
    /\ SubGrammar = "daily"
    /\ Len(Segments) = 3
    /\ ~parse_time_spec(Segments[2]).ok
    /\ ~result.ok
    /\ ErrKind(result) = "InvalidDailySyntax"

\* an unsigned integer as written: decimal digits, optionally after one
\* '+', of a value that fits 32 bits
IsUnsigned(s) ==
    LET body == IF Len(s) > 0 /\ s[1] = "+" THEN Tail(s) ELSE s
    IN /\ Len(body) > 0
       /\ \A i \in 1..Len(body) : IsDigit(body[i])
       /\ Len(StripZeros(body)) <= 10
       /\ Len(StripZeros(body)) = 10 =>
              ~DigitsLess(U32MaxDigits, StripZeros(body))

\* an element of a numeric field of one of the forms N, A-B, A-B/S and */S,
\* every number an unsigned integer
WellFormedElement(el) ==
    \/ IsUnsigned(el)
    \/ starts_with(el, Str("*/")) /\ IsUnsigned(SubSeq(el, 3, Len(el)))
    \/ LET parts == split(el, "/")
           range == split(parts[1], "-")
       IN /\ Len(parts) \in {1, 2}
          /\ Len(range) = 2
          /\ IsUnsigned(range[1])
          /\ IsUnsigned(range[2])
          /\ Len(parts) = 2 => IsUnsigned(parts[2])

\* a numeric field with a malformed element: not '*', and some element of
\* its comma list is of none of the four forms
MalformedField(tok) ==
    /\ tok # <<"*">>
    /\ \E i \in 1..Len(split(tok, ",")) :
           ~WellFormedElement(split(tok, ",")[i])

\* a day-of-week field with an invalid element: a range of more than two
\* endpoints, a number above 7, or a non-empty token that is neither a
\* number nor a prefix of a short name
InvalidDowField(tok) ==
    /\ tok # <<"*">>
    /\ \E i \in 1..Len(split(tok, ",")) :
           LET ends == split(split(tok, ",")[i], "-")
           IN \/ Len(ends) > 2
              \/ \E j \in 1..Len(ends) :
                     /\ ends[j] # <<>>
                     /\ IF IsUnsigned(ends[j])
                        THEN parse_u32(ends[j]).val > 7
                        ELSE ShortNameMatches(ends[j]) = {}

HasInvalidField ==
    /\ Parsed
    /\ OnFieldPath
    /\ \/ \E i \in 1..4 : MalformedField(Fields[i])
       \/ InvalidDowField(Fields[5])

C25_ParseTerminates ==
    Parsed => (result.ok \/ ErrKind(result) # "NonTermination")

\* the date and time parts of a Calendar '[<dow> ]*-<month>-<day>
\* <hour>:<minute>:00', and its four numeric fragments
CalendarWords == split(Unwrap(result.val.on_calendar), " ")

CalendarDate == split(CalendarWords[Len(CalendarWords) - 1], "-")

CalendarTime == split(CalendarWords[Len(CalendarWords)], ":")

CalendarFragments ==
    <<CalendarTime[2], CalendarTime[1], CalendarDate[3], CalendarDate[2]>>

\* a fragment that is non-empty and has no empty list element
WellFormedFragment(f) ==
    /\ f # <<>>
    /\ \A i \in 1..Len(split(f, ",")) : split(f, ",")[i] # <<>>

\* C26: every Calendar of the 5-field path has the shape
\* '[<dow> ]*-<month>-<day> <hour>:<minute>:00' with minute, hour,
\* day-of-month and month fragments that are non-empty and have no empty
\* list element, stepped ranges A-B/S with A > B included.
C26_FragmentsNonEmpty ==
    (Parsed /\ OnFieldPath /\ result.ok) =>
        /\ Len(CalendarWords) \in {2, 3}
        /\ Len(CalendarDate) = 3
        /\ Len(CalendarTime) = 3
        /\ \A i \in 1..4 : WellFormedFragment(CalendarFragments[i])

\* the runs of apply of the behaviour so far
ApplyRuns == {i \in 1..Len(history) : history[i].op = "apply"}

\* C27: in every run of apply, add is invoked for a name only when no unit
\* file of that name exists at that moment, and the run never fails with
\* the 'already exists' error of add.
C27_AddOnlyWhenAbsent ==
    \A i \in ApplyRuns :
        /\ \A k \in 1..Len(history[i].log) :
               history[i].log[k].op = "add" => ~history[i].log[k].exists
        /\ history[i].result.ok
               \/ ErrKind(history[i].result) # "AlreadyExists"

\* the runs of apply that read the file an export has just written
ExportedRuns ==
    {i \in 2..Len(history) :
        history[i].op = "apply" /\ history[i - 1].op = "export"}

\* C28: when apply runs on the file that export has produced from the
\* units of the directory, the diff has one entry for each unit, every
\* entry is Unchanged, apply invokes neither remove nor add, returns
\* without error, and the unit files are as they were.
C28_ExportApplyRoundTrip ==
    \A i \in ExportedRuns :
        /\ Len(history[i].diff) = Len(scan_all_units(history[i - 1].files))
        /\ \A k \in 1..Len(history[i].diff) :
               history[i].diff[k].status = "Unchanged"
        /\ history[i].log = <<>>
        /\ history[i].result.ok
        /\ i = Len(history) => unit_files = history[i - 1].files

\* a boot timer and a service of the default restart policy are installed,
\* exported, and the export is applied with --prune
C28_Witness ==
    /\ Len(history) = 3
    /\ 3 \in ExportedRuns
    /\ history[1].file = FileBoot
    /\ history[1].result.ok
    /\ ~history[1].dry_run
    /\ Len(history[3].diff) = 2
    /\ history[3].prune
    /\ ~history[3].dry_run
    /\ history[3].result = Ok("NothingToDo")
    /\ \E u \in {scan_all_units(unit_files)[2]} :
          /\ u.unit_type = "Service"
          /\ u.restart_policy = Some(Str("always"))
          /\ ~IsSome(history[2].file.services[u.name].restart)

\* the names of the entries of a file
FileNames(file) == DOMAIN file.timers \cup DOMAIN file.services

\* the unit files of the units that a file does not name
AbsentUnitFiles(files, file) ==
    {f \in DOMAIN files :
        \E n \in ServiceNames(files) \ FileNames(file) :
            f \in {service_filename(n), timer_filename(n)}}

\* the step is a run of apply
IsApplyStep ==
    /\ Len(history') = Len(history) + 1
    /\ history'[Len(history')].op = "apply"

\* what a run of apply with dry_run leaves alone: it invokes neither add
\* nor remove, and the unit files are as they were
DryRunFrame(run) ==
    run.dry_run =>
        /\ run.log = <<>>
        /\ run.result = Ok("DryRun")
        /\ unit_files' = unit_files

\* what a run of apply without prune leaves alone: it invokes remove only
\* for names of the file, the files of the units the file does not name
\* are as they were, and the summary counts no removal
NoPruneFrame(run) ==
    ~run.prune =>
        /\ \A k \in 1..Len(run.log) :
               run.log[k].op = "remove" =>
                   run.log[k].name \in FileNames(run.file)
        /\ \A f \in AbsentUnitFiles(unit_files, run.file) :
               f \in DOMAIN unit_files' /\ unit_files'[f] = unit_files[f]
        /\ run.removed = 0

\* C29: a run of apply with dry_run invokes neither add nor remove and
\* leaves the unit files unchanged; a run without prune never removes a
\* unit that is absent from the file and does not count it as removed.
C29_ApplyFrame ==
    [][IsApplyStep =>
           /\ DryRunFrame(history'[Len(history')])
           /\ NoPruneFrame(history'[Len(history')])]_vars

\* timers a and b are installed, the file is replaced by one that names a
\* only, and apply runs on it without --prune: b is listed, not removed
C29_Witness ==
    /\ Len(history) = 3
    /\ history[1].op = "apply"
    /\ history[1].file = FileWeekdays
    /\ history[3].op = "apply"
    /\ history[3].file = FileDailyLong
    /\ ~history[3].prune
    /\ ~history[3].dry_run
    /\ history[3].result = Ok("Applied")
    /\ \E k \in 1..Len(history[3].diff) :
          /\ history[3].diff[k].name = Str("b")
          /\ history[3].diff[k].status = "Removed"
    /\ history[3].removed = 0
    /\ timer_filename(Str("b")) \in DOMAIN unit_files

\* sdtab add of the input as the schedule of a unit 'job', on an empty unit
\* directory, no systemctl failure
AddOfInput ==
    add_run(World(<<>>, 0),
            TimerOptions(Str("job"),
                         [TimerEntry("", None, None)
                             EXCEPT !.schedule = expr]))

\* the lines of the timer file written by AddOfInput that set a trigger
TriggerLines ==
    LET ls == lines(AddOfInput.w.files[timer_filename(Str("job"))])
    IN [i \in {j \in 1..Len(ls) :
                  \/ starts_with(ls[j], Str("OnCalendar="))
                  \/ starts_with(ls[j], Str("OnBootSec="))} |-> ls[i]]

\* C30: add never reaches the unreachable! branch (nor the expect) of
\* generate_timer: a schedule with is_service goes to run_service and no
\* timer file is written, and for every other schedule that parse returns
\* on_calendar or on_boot_sec is set and the timer file has exactly one
\* trigger line, 'OnCalendar=' or 'OnBootSec=' followed by the parsed
\* string as it is.
C30_TimerHasTrigger ==
    Parsed =>
        /\ AddOfInput.r.ok \/ ErrKind(AddOfInput.r) # "Panic"
        /\ AddOfInput.r.ok = result.ok
        /\ (result.ok /\ result.val.is_service) =>
               /\ service_filename(Str("job")) \in DOMAIN AddOfInput.w.files
               /\ timer_filename(Str("job")) \notin DOMAIN AddOfInput.w.files
        /\ (result.ok /\ ~result.val.is_service) =>
               /\ IsSome(result.val.on_calendar)
                      \/ IsSome(result.val.on_boot_sec)
               /\ timer_filename(Str("job")) \in DOMAIN AddOfInput.w.files
               /\ Cardinality(DOMAIN TriggerLines) = 1
               /\ \A i \in DOMAIN TriggerLines :
                      TriggerLines[i] =
                          IF IsSome(result.val.on_calendar)
                          THEN Str("OnCalendar=")
                                   \o Unwrap(result.val.on_calendar)
                          ELSE Str("OnBootSec=")
                                   \o Unwrap(result.val.on_boot_sec)

\* '@reboot': no calendar, the boot delay is the trigger
C30_Witness ==
    /\ Parsed
    /\ Trimmed = Str("@reboot")
    /\ result.ok
    /\ ~IsSome(result.val.on_calendar)
    /\ AddOfInput.r.ok
    /\ \E i \in DOMAIN TriggerLines :
          TriggerLines[i] =
              Str("OnBootSec=") \o Unwrap(result.val.on_boot_sec)

====
